---- MODULE Spec2Model ----
(***************************************************************************)
(* A model of the infinite higher/lower card game: the deck, the deck      *)
(* watcher and odds counter, the payout calculator, prediction            *)
(* resolution, the side-mission state machine and the round loop of        *)
(* InfiniteGame.                                                           *)
(***************************************************************************)
EXTENDS Integers, Sequences, FiniteSets, TLC

VARIABLES
    state,                  \* InfiniteGame._state
    pc,                     \* where the single control thread waits for input
    deck,                   \* InfiniteGame._deck (Deck._cards), None before startup
    current_card,           \* InfiniteGame._current_card
    counter,                \* AICardCounter: _rank_counts, _joker_count, _total
    active_side_mission,    \* InfiniteGame._active_side_mission
    pending_side_mission,   \* InfiniteGame._pending_side_mission
    rounds_completed,       \* InfiniteGame._rounds_completed
    session,                \* SessionData (balance, upgrades, toggles, ...)
    round,                  \* locals of _run_round / _offer_side_mission at a prompt
    last,                   \* what the step just taken did (history)
    call,                   \* arguments of a helper evaluated on its own
    ret                     \* its result

gvars == <<state, pc, deck, current_card, counter, active_side_mission,
           pending_side_mission, rounds_completed, session, round, last>>
vars == <<gvars, call, ret>>

\* An optional value (Python's None or a value) is <<>> or <<value>>.
None == <<>>
Some(v) == <<v>>

\* ------------------------------------------------------------- cards

\* Rank (IntEnum): JOKER = 0, TWO = 2 .. ACE = 14.
RankJoker == 0
RankTwo == 2
RankAce == 14
Ranks == RankTwo..RankAce
SuitJoker == "Joker"
SuitOrder == <<"Clubs", "Diamonds", "Hearts", "Spades">>
Suits == {SuitOrder[i] : i \in 1..Len(SuitOrder)}

Card(r, s) == [rank |-> r, suit |-> s]
JokerCard == Card(RankJoker, SuitJoker)
AllCards == {Card(r, s) : r \in Ranks, s \in Suits} \cup {JokerCard}

\* A joker told from no other card.
NeverJoker(c) == FALSE

\* Card.is_joker
IsJoker(c) == c.rank = RankJoker \/ c.suit = SuitJoker

\* ------------------------------------------------------- predictions

HIGHER == "higher"
LOWER == "lower"
Predictions == {HIGHER, LOWER}

\* A reversal applied before the equal-rank test.
IsPredictionCorrectReverseFirst(current, next, prediction, reverse) ==
    LET correct == IF prediction = HIGHER
                   THEN next.rank > current.rank
                   ELSE next.rank < current.rank
    IN IF reverse THEN ~correct ELSE correct

\* The reverse flag left unread.
IsPredictionCorrectNoReverse(current, next, prediction, reverse) ==
    IF next.rank = current.rank THEN FALSE
    ELSE IF prediction = HIGHER
         THEN next.rank > current.rank
         ELSE next.rank < current.rank

\* InfiniteGame._is_prediction_correct
IsPredictionCorrect(current, next, prediction, reverse) ==
    IF next.rank = current.rank THEN FALSE
    ELSE LET correct == IF prediction = HIGHER
                        THEN next.rank > current.rank
                        ELSE next.rank < current.rank
         IN IF reverse THEN ~correct ELSE correct

\* ------------------------------------------------------------ bounds

\* The model's standard deck holds ranks 2..MaxDeckRank in NumSuits suits
\* (the program's holds 2..14 in 4 suits) plus the jokers.
MaxDeckRank == 3
NumSuits == 2
\* Rounds are resolved while fewer than MaxRounds are completed and the
\* balance is at most MaxBalance.
MaxRounds == 30
MaxBalance == 3
\* The game followed to the end of its first side mission resolves rounds
\* while fewer than MaxMissionRounds are completed.
MaxMissionRounds == 20
\* With the tallies of the session followed as they are, rounds are resolved
\* while fewer than MaxTallyRounds are completed, at any balance.
MaxTallyRounds == 4

\* --------------------------------------------------------- arithmetic

Max2(a, b) == IF a >= b THEN a ELSE b
RECURSIVE Pow2(_)
Pow2(n) == IF n <= 0 THEN 1 ELSE 2 * Pow2(n - 1)

\* Python's round() of the non-negative fraction n/d: ties go to the even
\* integer.
RoundHalfEven(n, d) ==
    LET q == n \div d
        r == n % d
    IN IF 2 * r < d THEN q
       ELSE IF 2 * r > d THEN q + 1
       ELSE IF q % 2 = 0 THEN q ELSE q + 1

\* -------------------------------------------------------------- deck

DeckRanks == RankTwo..MaxDeckRank
DeckSuits == {SuitOrder[i] : i \in 1..NumSuits}

RECURSIVE SetToSeq(_)
SetToSeq(S) == IF S = {} THEN <<>>
               ELSE LET x == CHOOSE y \in S : TRUE
                    IN <<x>> \o SetToSeq(S \ {x})

\* Deck._create_standard_deck(include_jokers=True, jokers_count=jokers)
CreateStandardDeck(jokers) ==
    SetToSeq({Card(r, s) : r \in DeckRanks, s \in DeckSuits})
        \o [i \in 1..jokers |-> JokerCard]

\* Deck.shuffle: random.shuffle leaves the cards in any order.
Shuffle(cards) ==
    {[i \in 1..Len(cards) |-> cards[p[i]]] : p \in Permutations(1..Len(cards))}

\* DeckEmptyError, the exception of Deck.deal.
DeckEmptyError == "DeckEmptyError"

\* Nothing raised for an empty deck.
DealEmptySilent(cards) == [raised |-> None, cards |-> cards]

\* Deck.deal on an empty deck: DeckEmptyError is raised before the list is
\* touched.
DealEmpty(cards) == [raised |-> Some(DeckEmptyError), cards |-> cards]

\* The first card of the list taken, as list.pop(0) does.
DealFirst(cards) ==
    [card |-> cards[1], cards |-> SubSeq(cards, 2, Len(cards))]

\* Deck.deal on a non-empty deck: list.pop() takes the last card.
Deal(cards) ==
    [card |-> cards[Len(cards)], cards |-> SubSeq(cards, 1, Len(cards) - 1)]

\* The cards but the i-th, in their order.
Without(cards, i) == SubSeq(cards, 1, i - 1) \o SubSeq(cards, i + 1, Len(cards))

\* Deck.deal on a deck that Deck.shuffle has shuffled.  The game reads the
\* order of its deck only by dealing, so the game's deck keeps the remaining
\* cards in the order they were created in, and the order the shuffle gave
\* them is drawn when a card is dealt: the last card of a shuffled deck is any
\* of its cards, and the others remain.  Cards of one rank differ by their
\* suit alone, which the game shows and never reads (Card.__eq__ and
\* Card.__lt__ compare ranks), so of the remaining cards of a rank the one
\* created first stands for each of them.
DealShuffled(cards) ==
    {[card |-> cards[i], cards |-> Without(cards, i)] :
        i \in {k \in 1..Len(cards) :
                  \A j \in 1..(k - 1) : cards[j].rank # cards[k].rank}}

\* ------------------------------------------------------ odds counter

\* AICardCounter.__init__
NewCounter == [rank_counts |-> [r \in Ranks |-> 0], joker_count |-> 0, total |-> 0]

\* AICardCounter.on_deck_updated: the counts are rebuilt from the snapshot.
OnDeckUpdated(remaining) ==
    [rank_counts |->
        [r \in Ranks |->
            Cardinality({i \in 1..Len(remaining) :
                ~IsJoker(remaining[i]) /\ remaining[i].rank = r})],
     joker_count |-> Cardinality({i \in 1..Len(remaining) : IsJoker(remaining[i])}),
     total |-> Len(remaining)]

RECURSIVE SumCounts(_, _)
SumCounts(counts, S) ==
    IF S = {} THEN 0
    ELSE LET r == CHOOSE x \in S : TRUE
         IN counts[r] + SumCounts(counts, S \ {r})

\* The jokers left out of the odds of the two calls.
WinOddsNoJoker(c, current) ==
    IF c.total = 0 \/ IsJoker(current)
    THEN [higher |-> 0, lower |-> 0, joker |-> 0, den |-> 1]
    ELSE [higher |-> SumCounts(c.rank_counts, {r \in Ranks : r > current.rank}),
          lower |-> SumCounts(c.rank_counts, {r \in Ranks : r < current.rank}),
          joker |-> c.joker_count,
          den |-> c.total]

\* The rank of the current card counted for both calls.
WinOddsInclusive(c, current) ==
    IF c.total = 0 \/ IsJoker(current)
    THEN [higher |-> 0, lower |-> 0, joker |-> 0, den |-> 1]
    ELSE [higher |-> SumCounts(c.rank_counts, {r \in Ranks : r >= current.rank})
                        + c.joker_count,
          lower |-> SumCounts(c.rank_counts, {r \in Ranks : r <= current.rank})
                       + c.joker_count,
          joker |-> c.joker_count,
          den |-> c.total]

\* AICardCounter.win_odds.  A probability is kept as the fraction num/den:
\* higher = (higher_count + joker_count) / total, and likewise lower.
ZeroOdds == [higher |-> 0, lower |-> 0, joker |-> 0, den |-> 1]
WinOdds(c, current) ==
    IF c.total = 0 \/ IsJoker(current) THEN ZeroOdds
    ELSE LET higher_count == SumCounts(c.rank_counts, {r \in Ranks : r > current.rank})
             lower_count == SumCounts(c.rank_counts, {r \in Ranks : r < current.rank})
         IN [higher |-> higher_count + c.joker_count,
             lower |-> lower_count + c.joker_count,
             joker |-> c.joker_count,
             den |-> c.total]

\* ----------------------------------------------------------- payouts

\* InfiniteGame._HOUSE_EDGE = 0.06, in percent.
HouseEdgePercent == 6

\* UpgradeState.odds_multiplier / bet_multiplier / joker_multiplier
OddsMultiplier(s) == Pow2(s.odds_level)
BetMultiplier(s) == Pow2(s.bet_level)
JokerMultiplier(s) == Pow2(s.joker_level)

\* The stake left at the base bet whatever the Bet Amplifier level.
StakeAmountBase(s) == s.base_bet

\* InfiniteGame._stake_amount
StakeAmount(s) == s.base_bet * BetMultiplier(s)

\* The rounded payout returned as it is, below the stake too.
CalculatePayoutNoFloor(s, stake, num, den) ==
    IF num <= 0 THEN None
    ELSE Some(RoundHalfEven(stake * den * (100 - HouseEdgePercent) * OddsMultiplier(s),
                            num * 100))

\* No payout offered for a call that would pay less than the stake.
CalculatePayoutAboveStakeOnly(s, stake, num, den) ==
    IF num <= 0 THEN None
    ELSE IF CalculatePayoutNoFloor(s, stake, num, den)[1] < stake THEN None
    ELSE CalculatePayoutNoFloor(s, stake, num, den)

\* InfiniteGame._calculate_payout for the probability num/den:
\* round(stake * (1/p) * (1 - 0.06) * odds_multiplier), never below the stake.
CalculatePayout(s, stake, num, den) ==
    IF num <= 0 THEN None
    ELSE Some(Max2(stake,
                   RoundHalfEven(stake * den * (100 - HouseEdgePercent) * OddsMultiplier(s),
                                 num * 100)))

\* InfiniteGame._build_payouts
BuildPayouts(s, odds) ==
    LET stake == StakeAmount(s)
    IN [stake |-> stake,
        higher |-> CalculatePayout(s, stake, odds.higher, odds.den),
        lower |-> CalculatePayout(s, stake, odds.lower, odds.den)]

\* InfiniteGame._payout_for_prediction
PayoutForPrediction(prediction, table) ==
    IF prediction = HIGHER THEN table.higher ELSE table.lower

\* InfiniteGame._win_probability, as the numerator over odds.den
WinProbability(odds, prediction, reverse) ==
    IF prediction = HIGHER
    THEN (IF reverse THEN odds.lower ELSE odds.higher)
    ELSE (IF reverse THEN odds.higher ELSE odds.lower)

\* ----------------------------------------------------- side missions

DOUBLE_OR_NOTHING == "double_or_nothing"
BIG_MONEY == "big_money"
LUCKY_SEVEN == "lucky_seven"
GONE_BLIND == "gone_blind"
REVERSE_PSYCHOLOGY == "reverse_psychology"
SideMissionTypes ==
    {DOUBLE_OR_NOTHING, BIG_MONEY, LUCKY_SEVEN, GONE_BLIND, REVERSE_PSYCHOLOGY}

\* SideMissionDefinition defaults: rounds 0, wins_required 0, bonus 1,
\* reverse_logic False, blind_rounds 0, skip_penalty_ratio None (percent here).
DefaultDefinition(kind) ==
    [kind |-> kind, rounds |-> 0, wins_required |-> 0, bonus_multiplier |-> 1,
     reverse_logic |-> FALSE, blind_rounds |-> 0, skip_penalty_percent |-> None]

\* SideMissionManager._DEFINITIONS
Definitions ==
    {[DefaultDefinition(DOUBLE_OR_NOTHING) EXCEPT !.wins_required = 3],
     [DefaultDefinition(BIG_MONEY) EXCEPT !.rounds = 1, !.bonus_multiplier = 5],
     [DefaultDefinition(LUCKY_SEVEN) EXCEPT !.rounds = 7, !.bonus_multiplier = 3],
     [DefaultDefinition(GONE_BLIND) EXCEPT
         !.rounds = 3, !.blind_rounds = 3, !.skip_penalty_percent = Some(10)],
     [DefaultDefinition(REVERSE_PSYCHOLOGY) EXCEPT !.rounds = 3, !.reverse_logic = TRUE]}

DefinitionOf(kind) == CHOOSE d \in Definitions : d.kind = kind

\* A mission started with definition.rounds alone.
StartMissionRoundsOnly(definition) ==
    [definition |-> definition, rounds_left |-> definition.rounds,
     wins_in_row |-> 0, active |-> TRUE, completed |-> FALSE, failed |-> FALSE]

\* SideMissionManager.start: rounds = definition.rounds or definition.wins_required
StartMission(definition) ==
    [definition |-> definition,
     rounds_left |-> IF definition.rounds # 0 THEN definition.rounds
                     ELSE definition.wins_required,
     wins_in_row |-> 0, active |-> TRUE, completed |-> FALSE, failed |-> FALSE]

\* The reversal dropped for the last round of the mission.
IsReverseBeforeLastRound(m) == m.definition.reverse_logic /\ m.rounds_left > 1

\* SideMissionState.is_blind / is_reverse
IsBlind(m) == m.definition.blind_rounds > 0 /\ m.rounds_left > 0
IsReverse(m) == m.definition.reverse_logic /\ m.rounds_left > 0

\* -------------------------------------------------------- game state

STARTUP == "startup"
DEALING == "dealing"
SHOPPING == "shopping"
SETTINGS == "settings"
ACHIEVEMENTS == "achievements"
TERMINATED == "terminated"

\* run() left by a DeckEmptyError that nothing catches.
RAISED == "raised"

\* InfiniteGame._FINAL_CREDITS, _BASE_JOKERS, _SIDE_MISSION_INTERVAL
FinalCredits == 100000000
BaseJokers == 2
SideMissionInterval == 15

\* The whole mutable state of one game, as the operators below thread it.
World ==
    [state |-> state, deck |-> deck, current_card |-> current_card,
     counter |-> counter, active_side_mission |-> active_side_mission,
     pending_side_mission |-> pending_side_mission,
     rounds_completed |-> rounds_completed, session |-> session]

\* InfiniteGame._unlock_achievement (only shadow_operator is followed)
UnlockAchievement(w, key) ==
    [w EXCEPT !.session.achievements = @ \cup {key}]

\* The fee of a paid calibration or a skipped mission:
\* max(1, int(round(balance * percent / 100))).
Fee(balance, percent) == Max2(1, RoundHalfEven(balance * percent, 100))

\* InfiniteGame._calibration_target_card: a non-joker card of the deck exists
HasCalibrationTarget(w) ==
    /\ w.deck # None
    /\ \E i \in 1..Len(w.deck[1]) : ~IsJoker(w.deck[1][i])

\* InfiniteGame._handle_calibration: the player scans the card (or the camera
\* fails), which changes nothing, or pays 10% of the balance.
HandleCalibration(w) ==
    IF ~w.session.calibration_enabled \/ ~HasCalibrationTarget(w) THEN {w}
    ELSE {w,
          [w EXCEPT !.session.balance = Max2(0, @ - Fee(@, 10))]}

\* InfiniteGame._prime_new_deck: a fresh shuffled deck, announced to the
\* observers, then the calibration.
PrimeNewDeck(w) ==
    LET d == CreateStandardDeck(BaseJokers * JokerMultiplier(w.session))
    IN HandleCalibration([w EXCEPT !.deck = Some(d), !.counter = OnDeckUpdated(d)])

\* A deck told empty only when there is none.
DeckEmptyOnlyNone(w) == w.deck = None

\* self._deck is None or len(self._deck) == 0
DeckEmpty(w) == w.deck = None \/ Len(w.deck[1]) = 0

\* A card dealt with no word to the watcher.
DealCardSilent(w) ==
    {[card |-> d.card, w |-> [w EXCEPT !.deck = Some(d.cards)]] :
        d \in DealShuffled(w.deck[1])}

\* InfiniteGame._deal_card: deal, then notify the remaining cards.  On an
\* empty deck Deck.deal raises and no card comes back.
DealCard(w) ==
    IF Len(w.deck[1]) = 0
    THEN {[card |-> None, w |-> [w EXCEPT !.state = RAISED]]}
    ELSE {[card |-> d.card,
           w |-> [w EXCEPT !.deck = Some(d.cards),
                           !.counter = OnDeckUpdated(d.cards)]] :
             d \in DealShuffled(w.deck[1])}

\* The first card dealt taken as the starting card, joker or not.
DealStartingCardAny(w) ==
    UNION {DealCard(w1) : w1 \in (IF DeckEmpty(w) THEN PrimeNewDeck(w) ELSE {w})}

\* InfiniteGame._deal_starting_card: deal until a non-joker comes, priming a
\* new deck whenever the deck is empty.
RECURSIVE DealStartingCard(_)
DealStartingCard(w) ==
    UNION {UNION {IF d.w.state = RAISED \/ ~IsJoker(d.card) THEN {d}
                  ELSE DealStartingCard(d.w) :
                     d \in DealCard(w1)} :
              w1 \in (IF DeckEmpty(w) THEN PrimeNewDeck(w) ELSE {w})}

\* self._current_card = self._deal_starting_card(), unless the call raised.
SetCurrentCard(S) ==
    {IF d.w.state = RAISED THEN d.w
     ELSE [d.w EXCEPT !.current_card = Some(d.card)] : d \in S}

\* InfiniteGame._check_deck_depleted
CheckDeckDepleted(w, next_card) ==
    IF w.state = RAISED THEN {w}
    ELSE IF DeckEmpty(w)
    THEN UNION {SetCurrentCard(DealStartingCard(w1)) : w1 \in PrimeNewDeck(w)}
    ELSE IF next_card # None THEN {[w EXCEPT !.current_card = next_card]}
    ELSE {w}

\* The bonus of the mission left out.
NoBonusMultiplier(w, payout) == payout

\* The multiplier added to the payout.
ApplyBonusMultiplierAdded(w, payout) ==
    IF w.active_side_mission = None THEN payout
    ELSE LET multiplier == w.active_side_mission[1].definition.bonus_multiplier
         IN IF multiplier <= 1 THEN payout ELSE payout + multiplier

\* InfiniteGame._apply_bonus_multiplier
ApplyBonusMultiplier(w, payout) ==
    IF w.active_side_mission = None THEN payout
    ELSE LET multiplier == w.active_side_mission[1].definition.bonus_multiplier
         IN IF multiplier <= 1 THEN payout ELSE payout * multiplier

\* The payout credited less the stake, which was already taken.
ApplyWinLessStake(w, payout, stake) ==
    LET profit == payout - stake
    IN [w EXCEPT !.session.balance = @ + profit,
                 !.session.total_credits = IF profit > 0 THEN @ + profit ELSE @]

\* InfiniteGame._apply_win
ApplyWin(w, payout, stake) ==
    LET profit == payout - stake
    IN [w EXCEPT !.session.balance = @ + payout,
                 !.session.total_credits = IF profit > 0 THEN @ + profit ELSE @]

\* The reward credited to the tally alone.
KeepBalanceReward(w) ==
    [w EXCEPT !.session.total_credits = @ + w.session.balance]

\* InfiniteGame._double_balance_reward
DoubleBalanceReward(w) ==
    [w EXCEPT !.session.balance = @ * 2,
              !.session.total_credits = @ + w.session.balance]

\* Double or Nothing started over by a lost round, never failed.
AdvanceMissionLossResets(m, win) ==
    IF m.definition.kind = DOUBLE_OR_NOTHING /\ ~win
    THEN [m EXCEPT !.wins_in_row = 0]
    ELSE IF m.definition.kind = DOUBLE_OR_NOTHING
    THEN [m EXCEPT !.wins_in_row = @ + 1,
                   !.completed = m.wins_in_row + 1 >= m.definition.wins_required,
                   !.active = m.wins_in_row + 1 < m.definition.wins_required]
    ELSE IF m.definition.kind = BIG_MONEY
    THEN [m EXCEPT !.completed = win, !.failed = ~win, !.active = FALSE]
    ELSE IF m.definition.kind = GONE_BLIND \/ win
    THEN [m EXCEPT !.rounds_left = @ - 1,
                   !.completed = m.rounds_left - 1 <= 0,
                   !.active = m.rounds_left - 1 > 0]
    ELSE [m EXCEPT !.failed = TRUE, !.active = FALSE]

\* Gone Blind advanced as Lucky Seven is: a lost round fails it.
AdvanceMissionBlindFails(m, win) ==
    LET counted == [m EXCEPT !.rounds_left = @ - 1]
    IN IF m.definition.kind = DOUBLE_OR_NOTHING
       THEN IF win
            THEN [m EXCEPT !.wins_in_row = @ + 1,
                           !.completed = m.wins_in_row + 1 >= m.definition.wins_required,
                           !.active = m.wins_in_row + 1 < m.definition.wins_required]
            ELSE [m EXCEPT !.failed = TRUE, !.active = FALSE]
       ELSE IF m.definition.kind = BIG_MONEY
       THEN [m EXCEPT !.completed = win, !.failed = ~win, !.active = FALSE]
       ELSE IF win
       THEN [counted EXCEPT !.completed = counted.rounds_left <= 0,
                            !.active = counted.rounds_left > 0]
       ELSE [m EXCEPT !.failed = TRUE, !.active = FALSE]

\* Lucky Seven and Reverse Psychology counting a lost round before failing.
AdvanceMissionLossCounts(m, win) ==
    IF m.definition.kind \in {LUCKY_SEVEN, REVERSE_PSYCHOLOGY} /\ ~win
    THEN [m EXCEPT !.rounds_left = @ - 1, !.failed = TRUE, !.active = FALSE]
    ELSE AdvanceMissionBlindFails(m, win)

\* The per-kind branches of InfiniteGame._update_side_mission_after_round,
\* on the mission object alone.
AdvanceMission(m, win) ==
    LET kind == m.definition.kind
        counted == [m EXCEPT !.rounds_left = @ - 1]
        completed == [m EXCEPT !.completed = TRUE, !.active = FALSE]
        failed == [m EXCEPT !.failed = TRUE, !.active = FALSE]
    IN IF kind = DOUBLE_OR_NOTHING
       THEN IF win
            THEN LET won == [m EXCEPT !.wins_in_row = @ + 1]
                 IN IF won.wins_in_row >= m.definition.wins_required
                    THEN [won EXCEPT !.completed = TRUE, !.active = FALSE]
                    ELSE won
            ELSE failed
       ELSE IF kind = BIG_MONEY
       THEN IF win THEN completed ELSE failed
       ELSE IF kind = LUCKY_SEVEN \/ kind = REVERSE_PSYCHOLOGY
       THEN IF win
            THEN IF counted.rounds_left <= 0
                 THEN [counted EXCEPT !.completed = TRUE, !.active = FALSE]
                 ELSE counted
            ELSE failed
       ELSE IF kind = GONE_BLIND
       THEN IF counted.rounds_left <= 0
            THEN [counted EXCEPT !.completed = TRUE, !.active = FALSE]
            ELSE counted
       ELSE m

\* The achievement unlocked by every mission that ends, failed ones too.
UpdateSideMissionAfterRoundUnlockAlways(w, win) ==
    IF w.active_side_mission = None THEN w
    ELSE LET before == w.active_side_mission[1]
             mission == AdvanceMission(before, win)
             rewarded == IF before.definition.kind = DOUBLE_OR_NOTHING /\ mission.completed
                         THEN DoubleBalanceReward(w) ELSE w
         IN IF ~mission.active
            THEN [UnlockAchievement(rewarded, "shadow_operator")
                  EXCEPT !.active_side_mission = None]
            ELSE [rewarded EXCEPT !.active_side_mission = Some(mission)]

\* InfiniteGame._update_side_mission_after_round
UpdateSideMissionAfterRound(w, win) ==
    IF w.active_side_mission = None THEN w
    ELSE LET before == w.active_side_mission[1]
             mission == AdvanceMission(before, win)
             rewarded == IF before.definition.kind = DOUBLE_OR_NOTHING /\ mission.completed
                         THEN DoubleBalanceReward(w) ELSE w
         IN IF ~mission.active
            THEN [(IF mission.completed
                   THEN UnlockAchievement(rewarded, "shadow_operator")
                   ELSE rewarded)
                  EXCEPT !.active_side_mission = None]
            ELSE [rewarded EXCEPT !.active_side_mission = Some(mission)]

\* A mission queued whatever the count of completed rounds.
MaybeScheduleSideMissionAnyRound(w) ==
    IF ~w.session.side_missions_enabled THEN {w}
    ELSE IF w.active_side_mission # None \/ w.pending_side_mission # None THEN {w}
    ELSE {[w EXCEPT !.pending_side_mission = Some(d)] : d \in Definitions}

\* InfiniteGame._maybe_schedule_side_mission: random_definition() may return
\* any definition of the catalogue.
MaybeScheduleSideMission(w) ==
    IF ~w.session.side_missions_enabled THEN {w}
    ELSE IF w.active_side_mission # None \/ w.pending_side_mission # None THEN {w}
    ELSE IF w.rounds_completed = 0 THEN {w}
    ELSE IF w.rounds_completed % SideMissionInterval # 0 THEN {w}
    ELSE {[w EXCEPT !.pending_side_mission = Some(d)] : d \in Definitions}

\* The win streak left as it is by a lost round.
AfterRoundKeepsStreak(w, win) ==
    LET counted == [w EXCEPT !.rounds_completed = @ + 1]
        streak ==
            IF win
            THEN [counted EXCEPT
                    !.session.win_streak = @ + 1,
                    !.session.max_win_streak = Max2(@, w.session.win_streak + 1)]
            ELSE counted
    IN MaybeScheduleSideMission(streak)

\* InfiniteGame._after_round
AfterRound(w, win) ==
    LET counted == [w EXCEPT !.rounds_completed = @ + 1]
        streak ==
            IF win
            THEN [counted EXCEPT
                    !.session.win_streak = @ + 1,
                    !.session.max_win_streak = Max2(@, w.session.win_streak + 1)]
            ELSE [counted EXCEPT !.session.win_streak = 0]
    IN MaybeScheduleSideMission(streak)

\* InfiniteGame._check_final_extraction
CheckFinalExtraction(w) ==
    IF w.session.total_credits < FinalCredits THEN w
    ELSE [w EXCEPT !.state = TERMINATED]

\* InfiniteGame._run_round up to the prediction prompt: the locals the round
\* keeps while it waits for the player.
EnterRound(w) ==
    LET side_mission == w.active_side_mission
        odds == WinOdds(w.counter, w.current_card[1])
    IN [blind_active |-> side_mission # None /\ IsBlind(side_mission[1]),
        reverse_active |-> side_mission # None /\ IsReverse(side_mission[1]),
        exact_odds |-> odds,
        payout_table |-> BuildPayouts(w.session, odds)]

\* What a resolved round reports: the call, the cards, the table payout of
\* the call, the amount credited and the balance it left, the mission object
\* as the update left it, and the fields the round started from.
RoundReport(w, settled, rnd, prediction, next_card, win, credited) ==
    [op |-> "round", prediction |-> prediction,
     current_card |-> w.current_card[1], next_card |-> next_card,
     joker |-> IsJoker(next_card), win |-> win,
     stake |-> rnd.payout_table.stake,
     payout |-> PayoutForPrediction(prediction, rnd.payout_table),
     credited |-> credited, balance |-> settled.session.balance,
     reverse_active |-> rnd.reverse_active, blind_active |-> rnd.blind_active,
     mission |-> IF w.active_side_mission = None THEN None
                 ELSE Some(AdvanceMission(w.active_side_mission[1], win)),
     before |-> [active_side_mission |-> w.active_side_mission,
                 pending_side_mission |-> w.pending_side_mission,
                 rounds_completed |-> w.rounds_completed,
                 balance |-> w.session.balance,
                 total_credits |-> w.session.total_credits,
                 win_streak |-> w.session.win_streak,
                 max_win_streak |-> w.session.max_win_streak]]

\* The credit of a won round: the table payout with the mission's bonus
\* (InfiniteGame._run_round, lines 286-289 and 304-309).
CreditWin(w, payout, stake) ==
    IF payout = None THEN w
    ELSE ApplyWin(w, ApplyBonusMultiplier(w, payout[1]), stake)

Credited(w, payout) ==
    IF payout = None THEN 0 ELSE ApplyBonusMultiplier(w, payout[1])

\* InfiniteGame._run_round after the prompt returned a prediction: the
\* worlds the round can end in, each with its report.
ResolveDealt(w, rnd, prediction, dealt) ==
    LET stake == rnd.payout_table.stake
        next_card == dealt.card
        payout == PayoutForPrediction(prediction, rnd.payout_table)
    IN IF dealt.w.state = RAISED
       THEN {[w |-> dealt.w, last |-> [op |-> "raised"]]}
       ELSE IF IsJoker(next_card)
       THEN LET won == CreditWin(dealt.w, payout, stake)
                updated == UpdateSideMissionAfterRound(won, TRUE)
                report == RoundReport(w, won, rnd, prediction, next_card, TRUE,
                                      Credited(dealt.w, payout))
            IN UNION {UNION {{[w |-> w3, last |-> report] :
                                 w3 \in CheckDeckDepleted(w2, None)} :
                          w2 \in SetCurrentCard(DealStartingCard(CheckFinalExtraction(w1)))} :
                      w1 \in AfterRound(updated, TRUE)}
       ELSE LET win == IsPredictionCorrect(w.current_card[1], next_card, prediction,
                                           rnd.reverse_active)
                settled == IF win THEN CreditWin(dealt.w, payout, stake) ELSE dealt.w
                updated == UpdateSideMissionAfterRound(settled, win)
                report == RoundReport(w, settled, rnd, prediction, next_card, win,
                                      IF win THEN Credited(dealt.w, payout) ELSE 0)
            IN UNION {IF w1.session.balance <= 0
                      THEN {[w |-> [w1 EXCEPT !.state = TERMINATED], last |-> report]}
                      ELSE {[w |-> w2, last |-> report] :
                               w2 \in CheckDeckDepleted(CheckFinalExtraction(w1),
                                                        Some(next_card))} :
                      w1 \in AfterRound(updated, win)}

ResolveRound(w, rnd, prediction) ==
    LET staked == [w EXCEPT !.session.balance = @ - rnd.payout_table.stake]
    IN UNION {ResolveDealt(w, rnd, prediction, dealt) : dealt \in DealCard(staked)}

\* InfiniteGame._handle_dealing from the deck check to the prediction prompt
\* of _run_round (lines 232-239).
ToPredictionPrompt(w) ==
    LET primed == IF DeckEmpty(w)
                  THEN UNION {SetCurrentCard(DealStartingCard(w1)) : w1 \in PrimeNewDeck(w)}
                  ELSE {w}
        ready == UNION {IF w1.state # RAISED /\ w1.current_card = None
                        THEN SetCurrentCard(DealStartingCard(w1)) ELSE {w1} : w1 \in primed}
    IN {IF w1.state = RAISED THEN [w |-> w1, pc |-> "run", round |-> None]
        ELSE [w |-> w1, pc |-> "predict", round |-> Some(EnterRound(w1))] :
           w1 \in ready}

\* The skip fee taken off the extracted credits as well.
ApplySideMissionSkipFromCredits(w, definition) ==
    IF definition.skip_penalty_percent # None
    THEN [w EXCEPT !.session.balance =
                      Max2(0, @ - Fee(@, definition.skip_penalty_percent[1])),
                   !.session.total_credits =
                      @ - Fee(w.session.balance, definition.skip_penalty_percent[1])]
    ELSE w

\* InfiniteGame._apply_side_mission_skip
ApplySideMissionSkip(w, definition) ==
    IF definition.skip_penalty_percent # None
    THEN [w EXCEPT !.session.balance =
                      Max2(0, @ - Fee(@, definition.skip_penalty_percent[1]))]
    ELSE w

\* ------------------------------------------------------------ actions

Assign(w) ==
    /\ state' = w.state
    /\ deck' = w.deck
    /\ current_card' = w.current_card
    /\ counter' = w.counter
    /\ active_side_mission' = w.active_side_mission
    /\ pending_side_mission' = w.pending_side_mission
    /\ rounds_completed' = w.rounds_completed
    /\ session' = w.session

\* InfiniteGame.run, state STARTUP: _handle_startup
HandleStartup ==
    /\ pc = "run" /\ state = STARTUP
    /\ \E w1 \in PrimeNewDeck(World) :
          \E w2 \in SetCurrentCard(DealStartingCard(w1)) :
             Assign(IF w2.state = RAISED THEN w2 ELSE [w2 EXCEPT !.state = DEALING])
    /\ pc' = "run" /\ round' = None /\ last' = None
    /\ UNCHANGED <<call, ret>>

\* The offer made with the definition left queued.
DealingKeepPending(w) ==
    IF w.session.balance <= 0 \/ w.session.balance < StakeAmount(w.session)
    THEN {[w |-> [w EXCEPT !.state = TERMINATED], pc |-> "run", round |-> None]}
    ELSE IF w.pending_side_mission # None /\ w.active_side_mission = None
    THEN IF ~w.session.side_missions_enabled
         THEN ToPredictionPrompt([w EXCEPT !.pending_side_mission = None])
         ELSE {[w |-> w, pc |-> "offer",
                round |-> Some([definition |-> w.pending_side_mission[1]])]}
    ELSE ToPredictionPrompt(w)

\* One iteration of the loop of InfiniteGame._handle_dealing, from its top to
\* the prompt it stops at (or to the end of the game).
Dealing(w) ==
    IF w.session.balance <= 0 \/ w.session.balance < StakeAmount(w.session)
    THEN {[w |-> [w EXCEPT !.state = TERMINATED], pc |-> "run", round |-> None]}
    ELSE IF w.pending_side_mission # None /\ w.active_side_mission = None
    THEN IF ~w.session.side_missions_enabled
         THEN ToPredictionPrompt([w EXCEPT !.pending_side_mission = None])
         ELSE {[w |-> [w EXCEPT !.pending_side_mission = None], pc |-> "offer",
                round |-> Some([definition |-> w.pending_side_mission[1]])]}
    ELSE ToPredictionPrompt(w)

\* InfiniteGame.run, state DEALING: _handle_dealing, with the tallies of the
\* session followed as they are.
HandleDealing ==
    /\ pc = "run" /\ state = DEALING
    /\ rounds_completed < MaxTallyRounds
    /\ \E p \in Dealing(World) :
          /\ Assign(p.w) /\ pc' = p.pc /\ round' = p.round
          /\ last' = (IF p.pc = "run" THEN last ELSE None)
    /\ UNCHANGED <<call, ret>>

\* The tallies of the session (total_credits, win_streak, max_win_streak) are
\* written by every round and read by _check_final_extraction alone, far
\* above any value a bounded game reaches.  A game of many rounds is followed
\* with the tallies counted from the start of each iteration of the dealing
\* loop that reaches a prompt: after a round they hold what that round added.
Rebased(w) ==
    [w EXCEPT !.session.total_credits = 0,
              !.session.win_streak = 0,
              !.session.max_win_streak = 0]

\* InfiniteGame.run, state DEALING: _handle_dealing, with the tallies counted
\* from this iteration on.
HandleDealingRebased ==
    /\ pc = "run" /\ state = DEALING
    /\ rounds_completed < MaxRounds
    /\ session.balance <= MaxBalance
    /\ \E p \in Dealing(World) :
          /\ Assign(IF p.pc = "run" THEN p.w ELSE Rebased(p.w))
          /\ pc' = p.pc /\ round' = p.round
          /\ last' = (IF p.pc = "run" THEN last ELSE None)
    /\ UNCHANGED <<call, ret>>

\* InfiniteGame.run, state DEALING: _handle_dealing in the game followed to
\* the end of its first side mission.
HandleDealingFirstMission ==
    /\ pc = "run" /\ state = DEALING
    /\ rounds_completed < MaxMissionRounds
    /\ session.balance <= MaxBalance
    /\ \E p \in Dealing(World) :
          /\ Assign(IF p.pc = "run" THEN p.w ELSE Rebased(p.w))
          /\ pc' = p.pc /\ round' = p.round
          /\ last' = (IF p.pc = "run" THEN last ELSE None)
    /\ UNCHANGED <<call, ret>>

\* The rounds followed after the game is taken up between two rounds.
MaxResumedRounds == 3

\* InfiniteGame.run, state DEALING: _handle_dealing in the game taken up
\* after its 15th round, with the tallies of the session followed as they
\* are.
HandleDealingResumed ==
    /\ pc = "run" /\ state = DEALING
    /\ rounds_completed < SideMissionInterval + MaxResumedRounds
    /\ \E p \in Dealing(World) :
          /\ Assign(p.w) /\ pc' = p.pc /\ round' = p.round
          /\ last' = (IF p.pc = "run" THEN last ELSE None)
    /\ UNCHANGED <<call, ret>>

\* A command that changes the state, as _apply_command_result applies it.
CommandStates == {SHOPPING, SETTINGS, ACHIEVEMENTS, TERMINATED}

\* InfiniteGame._offer_side_mission at its prompt: the player accepts.
OfferAccept ==
    /\ pc = "offer"
    /\ \E p \in ToPredictionPrompt(
                   [World EXCEPT !.active_side_mission =
                                    Some(StartMission(round[1].definition))]) :
          Assign(p.w) /\ pc' = p.pc /\ round' = p.round
    /\ last' = Some([op |-> "accept", definition |-> round[1].definition])
    /\ UNCHANGED <<call, ret>>

\* InfiniteGame._offer_side_mission at its prompt: the player skips.
OfferSkip ==
    /\ pc = "offer"
    /\ \E p \in ToPredictionPrompt(ApplySideMissionSkip(World, round[1].definition)) :
          Assign(p.w) /\ pc' = p.pc /\ round' = p.round
    /\ last' = Some([op |-> "skip", definition |-> round[1].definition])
    /\ UNCHANGED <<call, ret>>

\* A command at the offer that leaves the dealing loop with nothing queued.
OfferCommandDropsPending ==
    /\ pc = "offer"
    /\ \E next_state \in CommandStates :
          Assign([World EXCEPT !.state = next_state])
    /\ pc' = "run" /\ round' = None
    /\ last' = Some([op |-> "offer_command", definition |-> round[1].definition])
    /\ UNCHANGED <<call, ret>>

\* InfiniteGame._offer_side_mission at its prompt: a command that changes the
\* state puts the definition back and leaves the dealing loop.
OfferCommand ==
    /\ pc = "offer"
    /\ \E next_state \in CommandStates :
          Assign([World EXCEPT !.state = next_state,
                               !.pending_side_mission = Some(round[1].definition)])
    /\ pc' = "run" /\ round' = None
    /\ last' = Some([op |-> "offer_command", definition |-> round[1].definition])
    /\ UNCHANGED <<call, ret>>

\* A prompt that asks again: save, help or an unknown answer at the offer;
\* save, help, an invalid prediction or a call without payout at the
\* prediction prompt; an unknown selection in a menu.
Reprompt ==
    /\ pc \in {"offer", "predict", "shop", "settings"}
    /\ UNCHANGED vars

\* A command read after the stake was taken.
PredictCommandStaked ==
    /\ pc = "predict"
    /\ \E next_state \in CommandStates :
          Assign([World EXCEPT !.state = next_state,
                               !.session.balance = @ - round[1].payout_table.stake])
    /\ pc' = "run" /\ round' = None
    /\ last' = Some([op |-> "command"])
    /\ UNCHANGED <<call, ret>>

\* A prediction taken whatever its payout.
PredictAnyPayout ==
    /\ pc = "predict"
    /\ \E prediction \in Predictions :
          \E r \in ResolveRound(World, round[1], prediction) :
             Assign(r.w) /\ last' = Some(r.last)
    /\ pc' = "run" /\ round' = None
    /\ UNCHANGED <<call, ret>>

\* A prediction taken when the opposite call has a payout.
PredictOppositeChecked ==
    /\ pc = "predict"
    /\ \E prediction \in Predictions :
          /\ PayoutForPrediction(IF prediction = HIGHER THEN LOWER ELSE HIGHER,
                                 round[1].payout_table) # None
          /\ \E r \in ResolveRound(World, round[1], prediction) :
                Assign(r.w) /\ last' = Some(r.last)
    /\ pc' = "run" /\ round' = None
    /\ UNCHANGED <<call, ret>>

\* InfiniteGame._prompt_prediction returned a prediction with a payout: the
\* rest of _run_round.
Predict ==
    /\ pc = "predict"
    /\ \E prediction \in Predictions :
          /\ PayoutForPrediction(prediction, round[1].payout_table) # None
          /\ \E r \in ResolveRound(World, round[1], prediction) :
                Assign(r.w) /\ last' = Some(r.last)
    /\ pc' = "run" /\ round' = None
    /\ UNCHANGED <<call, ret>>

\* InfiniteGame._prompt_prediction: a command that changes the state
\* abandons the round.
PredictCommand ==
    /\ pc = "predict"
    /\ \E next_state \in CommandStates :
          Assign([World EXCEPT !.state = next_state])
    /\ pc' = "run" /\ round' = None
    /\ last' = Some([op |-> "command"])
    /\ UNCHANGED <<call, ret>>

\* ------------------------------------------------------------- menus

\* Shop._ODDS_ITEM, _BET_ITEM, _AI_ITEM, _JOKER_ITEM
OddsItem == [attribute |-> "odds_level", base_cost |-> 4000, max_level |-> 7]
BetItem == [attribute |-> "bet_level", base_cost |-> 3000, max_level |-> 7]
AiItem == [attribute |-> "ai_counter", base_cost |-> 30000, max_level |-> 1]
JokerItem == [attribute |-> "joker_level", base_cost |-> 60000, max_level |-> 1]

\* Shop._next_cost
NextCost(item, level) == item.base_cost * Pow2(level)

\* A level bought without a look at the item's max_level.
AttemptLevelPurchaseUncapped(s, item) ==
    LET current_level == s[item.attribute]
        cost == NextCost(item, current_level)
    IN IF s.balance < cost THEN s
       ELSE [s EXCEPT !.balance = @ - cost, ![item.attribute] = current_level + 1]

\* A level sold without a look at the balance.
AttemptLevelPurchaseOnCredit(s, item) ==
    LET current_level == s[item.attribute]
        cost == NextCost(item, current_level)
    IN IF current_level >= item.max_level THEN s
       ELSE [s EXCEPT !.balance = @ - cost, ![item.attribute] = current_level + 1]

\* Shop._attempt_level_purchase
AttemptLevelPurchase(s, item) ==
    LET current_level == s[item.attribute]
        cost == NextCost(item, current_level)
    IN IF current_level >= item.max_level THEN s
       ELSE IF s.balance < cost THEN s
       ELSE [s EXCEPT !.balance = @ - cost, ![item.attribute] = current_level + 1]

\* Shop._attempt_toggle_purchase
AttemptTogglePurchase(s, item) ==
    IF s[item.attribute] THEN s
    ELSE IF s.balance < item.base_cost THEN s
    ELSE [s EXCEPT !.balance = @ - item.base_cost, ![item.attribute] = TRUE]

\* Shop.open: one selection of a level upgrade at the prompt; ret keeps the
\* item asked for and the session as it was.
CallAttemptLevelPurchase ==
    /\ pc = "shop"
    /\ \E item \in {OddsItem, BetItem, JokerItem} :
          /\ session' = AttemptLevelPurchase(session, item)
          /\ ret' = Some([op |-> "level", item |-> item, before |-> session])
    /\ UNCHANGED <<state, pc, deck, current_card, counter, active_side_mission,
                   pending_side_mission, rounds_completed, round, last, call>>

\* Shop.open: the AI card counter selected at the prompt.
CallAttemptTogglePurchase ==
    /\ pc = "shop"
    /\ session' = AttemptTogglePurchase(session, AiItem)
    /\ ret' = Some([op |-> "toggle", item |-> AiItem, before |-> session])
    /\ UNCHANGED <<state, pc, deck, current_card, counter, active_side_mission,
                   pending_side_mission, rounds_completed, round, last, call>>

\* InfiniteGame.run, state SHOPPING: Shop.open up to its prompt.
HandleShopping ==
    /\ pc = "run" /\ state = SHOPPING
    /\ pc' = "shop"
    /\ UNCHANGED <<state, deck, current_card, counter, active_side_mission,
                   pending_side_mission, rounds_completed, session, round, last,
                   call, ret>>

\* Shop.open: one selection at the prompt.
ShopSelect ==
    /\ pc = "shop"
    /\ \/ \E item \in {OddsItem, BetItem, JokerItem} :
             session' = AttemptLevelPurchase(session, item)
       \/ session' = AttemptTogglePurchase(session, AiItem)
    /\ UNCHANGED <<state, pc, deck, current_card, counter, active_side_mission,
                   pending_side_mission, rounds_completed, round, last, call, ret>>

\* Shop.open: back to the mission; run() returns to DEALING.
ShopBack ==
    /\ pc = "shop"
    /\ state' = DEALING /\ pc' = "run"
    /\ UNCHANGED <<deck, current_card, counter, active_side_mission,
                   pending_side_mission, rounds_completed, session, round, last,
                   call, ret>>

\* InfiniteGame.run, state SETTINGS: SettingsMenu.open up to its prompt.
HandleSettings ==
    /\ pc = "run" /\ state = SETTINGS
    /\ pc' = "settings"
    /\ UNCHANGED <<state, deck, current_card, counter, active_side_mission,
                   pending_side_mission, rounds_completed, session, round, last,
                   call, ret>>

\* SettingsMenu.open: choices "3" and "4" (the visual choices "1" and "2"
\* change nothing that is followed here).
SettingsSelect ==
    /\ pc = "settings"
    /\ \/ session' = [session EXCEPT !.side_missions_enabled = ~@]
       \/ session' = [session EXCEPT !.calibration_enabled = ~@]
    /\ UNCHANGED <<state, pc, deck, current_card, counter, active_side_mission,
                   pending_side_mission, rounds_completed, round, last, call, ret>>

\* SettingsMenu.open: back to the mission; run() returns to DEALING.
SettingsBack ==
    /\ pc = "settings"
    /\ state' = DEALING /\ pc' = "run"
    /\ UNCHANGED <<deck, current_card, counter, active_side_mission,
                   pending_side_mission, rounds_completed, session, round, last,
                   call, ret>>

\* InfiniteGame.run, state ACHIEVEMENTS: the list is shown, one input is
\* read and run() returns to DEALING.
HandleAchievements ==
    /\ pc = "run" /\ state = ACHIEVEMENTS
    /\ state' = DEALING
    /\ UNCHANGED <<pc, deck, current_card, counter, active_side_mission,
                   pending_side_mission, rounds_completed, session, round, last,
                   call, ret>>

\* ------------------------------- _update_side_mission_after_round alone

\* The balances a mission is accepted with.
MaxMissionBalance == 3

\* One call of InfiniteGame._update_side_mission_after_round on a mission
\* that is attached, for a round of either outcome.  call keeps the
\* definition, the balance the mission was accepted with and the outcomes of
\* the rounds since; ret keeps the outcome of the last round, the mission
\* object before it and as the call left it.
UpdateSideMission ==
    /\ pc = "mission" /\ active_side_mission # None
    /\ \E win \in BOOLEAN :
          /\ Assign(UpdateSideMissionAfterRound(World, win))
          /\ call' = Some([call[1] EXCEPT !.wins = Append(@, win)])
          /\ ret' = Some([win |-> win, before |-> active_side_mission[1],
                          mission |-> AdvanceMission(active_side_mission[1], win)])
    /\ UNCHANGED <<pc, round, last>>

\* ------------------------------------------------ the offer of a mission

\* The balances a mission is offered at.
MaxOfferBalance == 30

\* The iteration of the loop of InfiniteGame._handle_dealing that finds a
\* mission queued.
HandleDealingOffer ==
    /\ pc = "run" /\ state = DEALING
    /\ pending_side_mission # None
    /\ \E p \in Dealing(World) :
          Assign(p.w) /\ pc' = p.pc /\ round' = p.round
    /\ last' = None
    /\ UNCHANGED <<call, ret>>

\* ------------------------------------------------ AICardCounter alone

\* The snapshots delivered to the counter hold at most MaxSnapshotLen cards
\* of ranks 2..MaxSnapshotRank in two suits, and jokers.
MaxSnapshotRank == 4
MaxSnapshotLen == 3
SnapshotCards ==
    {Card(r, s) : r \in RankTwo..MaxSnapshotRank, s \in {SuitOrder[1], SuitOrder[2]}}
        \cup {JokerCard}
Snapshots == UNION {[1..n -> SnapshotCards] : n \in 0..MaxSnapshotLen}

\* DeckWatcher.notify to the counter: the first snapshot is any snapshot; a
\* later one is what Deck.deal left of the last.  call keeps the snapshot
\* last delivered.
CallOnDeckUpdated ==
    /\ \E remaining \in (IF call = None THEN Snapshots
                         ELSE IF Len(call[1].remaining) > 0
                         THEN {Deal(call[1].remaining).cards}
                         ELSE {}) :
          /\ counter' = OnDeckUpdated(remaining)
          /\ call' = Some([remaining |-> remaining])
    /\ ret' = None
    /\ UNCHANGED <<state, pc, deck, current_card, active_side_mission,
                   pending_side_mission, rounds_completed, session, round, last>>

\* One call of AICardCounter.win_odds, for any current card.
CallWinOdds ==
    /\ \E current \in SnapshotCards :
          ret' = Some([current |-> current, odds |-> WinOdds(counter, current)])
    /\ UNCHANGED <<gvars, call>>

\* ------------------------------------------- the payout calculator alone

\* The payouts are calculated for stakes 1..MaxStake and odds that are
\* fractions over 1..MaxOddsDen.
MaxStake == 10
MaxOddsDen == 5

\* The arguments: a stake and the odds of the two calls, numerators from
\* below zero (no chance, or less) to the denominator (certainty).
PayoutCalls ==
    {[stake |-> stake, odds |-> [higher |-> h, lower |-> l, joker |-> 0, den |-> d]] :
        stake \in 1..MaxStake,
        h \in -1..MaxOddsDen, l \in -1..MaxOddsDen, d \in 1..MaxOddsDen}

\* One call of InfiniteGame._calculate_payout, for the odds of HIGHER.
CallCalculatePayout ==
    /\ call # None
    /\ ret' = Some([op |-> "calculate",
                    payout |-> CalculatePayout(session, call[1].stake,
                                               call[1].odds.higher, call[1].odds.den)])
    /\ UNCHANGED <<gvars, call>>

\* One call of InfiniteGame._build_payouts.
CallBuildPayouts ==
    /\ call # None
    /\ ret' = Some([op |-> "build", table |-> BuildPayouts(session, call[1].odds)])
    /\ UNCHANGED <<gvars, call>>

\* ----------------------------------------------------------- Deck alone

\* A deck built from a list of at most MaxDeckCards cards.
MaxDeckCards == 4
DeckLists == UNION {[1..n -> SnapshotCards] : n \in 0..MaxDeckCards}

\* One call of Deck.deal on a deck that is not empty.  call keeps the cards
\* the deck was built with and the cards dealt since, in the order they were
\* dealt; ret is the card the call returned.
CallDeal ==
    /\ deck # None /\ Len(deck[1]) > 0
    /\ LET dealt == Deal(deck[1])
       IN /\ deck' = Some(dealt.cards)
          /\ ret' = Some(dealt.card)
          /\ call' = Some([call[1] EXCEPT !.dealt = Append(@, dealt.card)])
    /\ last' = None
    /\ UNCHANGED <<state, pc, current_card, counter, active_side_mission,
                   pending_side_mission, rounds_completed, session, round>>

\* One call of Deck.deal on an empty deck: no card is returned; last keeps
\* what the call raised.
CallDealEmpty ==
    /\ deck # None /\ Len(deck[1]) = 0
    /\ LET out == DealEmpty(deck[1])
       IN /\ deck' = Some(out.cards)
          /\ last' = Some([op |-> "deal", raised |-> out.raised])
    /\ ret' = None
    /\ UNCHANGED <<state, pc, current_card, counter, active_side_mission,
                   pending_side_mission, rounds_completed, session, round, call>>

\* One call of Deck.shuffle: the remaining cards in any order.  The cards
\* dealt are counted from the shuffle on.
CallShuffle ==
    /\ deck # None
    /\ \E cards \in Shuffle(deck[1]) :
          /\ deck' = Some(cards)
          /\ call' = Some([initial |-> cards, dealt |-> <<>>])
    /\ ret' = None
    /\ last' = None
    /\ UNCHANGED <<state, pc, current_card, counter, active_side_mission,
                   pending_side_mission, rounds_completed, session, round>>

\* ---------------------------------------------------- DeckWatcher alone

\* The observers a watcher is given: the game's card counter and two more.
Observers == {"ai_counter", "second", "third"}

\* The snapshots a watcher is asked to deliver.
WatcherSnapshots == {cards \in Snapshots : Len(cards) <= 2}

\* observer in self._observers
IsAttached(observers, observer) ==
    \E i \in 1..Len(observers) : observers[i] = observer

\* Every call appends, attached or not.
AttachAlways(observers, observer) == Append(observers, observer)

\* DeckWatcher.attach
Attach(observers, observer) ==
    IF ~IsAttached(observers, observer)
    THEN Append(observers, observer)
    ELSE observers

\* DeckWatcher.detach: list.remove takes the first equal element out.
Detach(observers, observer) ==
    IF IsAttached(observers, observer)
    THEN LET i == CHOOSE k \in 1..Len(observers) :
                      /\ observers[k] = observer
                      /\ \A j \in 1..(k - 1) : observers[j] # observer
         IN SubSeq(observers, 1, i - 1)
                \o SubSeq(observers, i + 1, Len(observers))
    ELSE observers

\* The list walked from its end.
DeliveryReversed(observers, i, snapshot) ==
    [observer |-> observers[Len(observers) - i + 1], snapshot |-> snapshot]

\* One pass of the loop of DeckWatcher.notify: on_deck_updated(snapshot)
\* of the i-th observer of the list.
Delivery(observers, i, snapshot) ==
    [observer |-> observers[i], snapshot |-> snapshot]

\* watcher.attach(observer); detached keeps the observers taken out and not
\* attached again.
CallAttach ==
    /\ pc = "idle"
    /\ \E observer \in Observers :
          /\ call' = Some([observers |-> Attach(call[1].observers, observer),
                           detached |-> call[1].detached \ {observer}])
          /\ last' = Some([op |-> "attach", observer |-> observer,
                           before |-> call[1].observers])
    /\ ret' = None
    /\ UNCHANGED <<state, pc, deck, current_card, counter, active_side_mission,
                   pending_side_mission, rounds_completed, session, round>>

\* watcher.detach(observer)
CallDetach ==
    /\ pc = "idle"
    /\ \E observer \in Observers :
          /\ call' = Some([observers |-> Detach(call[1].observers, observer),
                           detached |->
                               IF IsAttached(call[1].observers, observer)
                               THEN call[1].detached \cup {observer}
                               ELSE call[1].detached])
          /\ last' = Some([op |-> "detach", observer |-> observer,
                           before |-> call[1].observers])
    /\ ret' = None
    /\ UNCHANGED <<state, pc, deck, current_card, counter, active_side_mission,
                   pending_side_mission, rounds_completed, session, round>>

\* watcher.notify(remaining) entered: the snapshot is taken once; ret
\* collects the deliveries of this call.
CallNotify ==
    /\ pc = "idle"
    /\ \E remaining \in WatcherSnapshots :
          last' = Some([op |-> "notify", snapshot |-> remaining, i |-> 1])
    /\ pc' = "notify"
    /\ ret' = Some(<<>>)
    /\ UNCHANGED <<state, deck, current_card, counter, active_side_mission,
                   pending_side_mission, rounds_completed, session, round,
                   call>>

\* The body of the for loop of notify.
NotifyDeliver ==
    /\ pc = "notify"
    /\ last[1].i <= Len(call[1].observers)
    /\ ret' = Some(Append(ret[1], Delivery(call[1].observers, last[1].i,
                                           last[1].snapshot)))
    /\ last' = Some([last[1] EXCEPT !.i = @ + 1])
    /\ UNCHANGED <<state, pc, deck, current_card, counter, active_side_mission,
                   pending_side_mission, rounds_completed, session, round,
                   call>>

\* notify returns when the list is exhausted.
NotifyReturn ==
    /\ pc = "notify"
    /\ last[1].i > Len(call[1].observers)
    /\ pc' = "idle"
    /\ last' = Some([last[1] EXCEPT !.op = "notified"])
    /\ UNCHANGED <<state, deck, current_card, counter, active_side_mission,
                   pending_side_mission, rounds_completed, session, round,
                   call, ret>>

\* ------------------------------------------ _apply_bonus_multiplier alone

MaxBonusPayout == 40

\* self._apply_bonus_multiplier(payout) with the mission of the state.
CallApplyBonusMultiplier ==
    /\ \E payout \in 0..MaxBonusPayout :
          /\ call' = Some([payout |-> payout])
          /\ ret' = Some(ApplyBonusMultiplier(World, payout))
    /\ UNCHANGED <<state, pc, deck, current_card, counter, active_side_mission,
                   pending_side_mission, rounds_completed, session, round, last>>

\* ------------------------------------------ Prediction.input_from_player

\* Strings are sequences of one-character strings.
High == <<"h", "i", "g", "h">>
Higher == <<"h", "i", "g", "h", "e", "r">>
Low == <<"l", "o", "w">>
Lower == <<"l", "o", "w", "e", "r">>
Equal == <<"e", "q", "u", "a", "l">>

\* InvalidPredictionError, the exception of input_from_player.
InvalidPredictionError == "InvalidPredictionError"

\* aliases of input_from_player
Aliases ==
    {[word |-> <<"h">>, prediction |-> HIGHER],
     [word |-> <<"h", "i">>, prediction |-> HIGHER],
     [word |-> High, prediction |-> HIGHER],
     [word |-> Higher, prediction |-> HIGHER],
     [word |-> <<"l">>, prediction |-> LOWER],
     [word |-> <<"l", "o">>, prediction |-> LOWER],
     [word |-> Low, prediction |-> LOWER],
     [word |-> Lower, prediction |-> LOWER]}

\* fuzzy_targets and max_distance of _fuzzy_match
FuzzyTargets == <<High, Higher, Low, Lower>>
MaxDistance == 1

\* The characters str.strip takes off both ends.
Whitespace == {" ", "\t"}

\* str.strip
RECURSIVE StripLeft(_)
StripLeft(s) ==
    IF s # <<>> /\ Head(s) \in Whitespace THEN StripLeft(Tail(s)) ELSE s

RECURSIVE StripRight(_)
StripRight(s) ==
    IF s # <<>> /\ s[Len(s)] \in Whitespace
    THEN StripRight(SubSeq(s, 1, Len(s) - 1))
    ELSE s

Strip(s) == StripRight(StripLeft(s))

\* str.lower on the capitals of the input alphabet; every other character
\* is its own lower case.
LowerChar(c) ==
    IF c = "H" THEN "h"
    ELSE IF c = "I" THEN "i"
    ELSE IF c = "L" THEN "l"
    ELSE IF c = "O" THEN "o"
    ELSE IF c = "W" THEN "w"
    ELSE c

ToLower(s) == [i \in 1..Len(s) |-> LowerChar(s[i])]

\* min(insert, delete, replace)
Min3(x, y, z) ==
    IF x <= y /\ x <= z THEN x ELSE IF y <= z THEN y ELSE z

\* The inner loop of _levenshtein: current_row grown to len(b) + 1 entries.
RECURSIVE CurrentRow(_, _, _, _)
CurrentRow(previous_row, a_char, b, current_row) ==
    IF Len(current_row) = Len(b) + 1 THEN current_row
    ELSE LET j == Len(current_row)
             insert == current_row[j] + 1
             delete == previous_row[j + 1] + 1
             replace == previous_row[j] + (IF a_char # b[j] THEN 1 ELSE 0)
         IN CurrentRow(previous_row, a_char, b,
                       Append(current_row, Min3(insert, delete, replace)))

\* The outer loop of _levenshtein from the i-th character of a on.
RECURSIVE LevenshteinRows(_, _, _, _)
LevenshteinRows(a, b, i, previous_row) ==
    IF i > Len(a) THEN previous_row
    ELSE LevenshteinRows(a, b, i + 1,
                         CurrentRow(previous_row, a[i], b, <<i>>))

\* Prediction._levenshtein
Levenshtein(a, b) ==
    IF a = b THEN 0
    ELSE IF a = <<>> THEN Len(b)
    ELSE IF b = <<>> THEN Len(a)
    ELSE LET row == LevenshteinRows(a, b, 1, [j \in 1..(Len(b) + 1) |-> j - 1])
         IN row[Len(row)]

\* A match accepted up to two edits away.
FuzzyMatchWithinTwo(word) ==
    LET hits == {k \in 1..Len(FuzzyTargets) :
                    Levenshtein(word, FuzzyTargets[k]) <= MaxDistance + 1}
    IN IF hits = {} THEN None
       ELSE Some(FuzzyTargets[CHOOSE k \in hits : \A m \in hits : k <= m])

\* Prediction._fuzzy_match: the first target within max_distance.
FuzzyMatch(word) ==
    LET hits == {k \in 1..Len(FuzzyTargets) :
                    Levenshtein(word, FuzzyTargets[k]) <= MaxDistance}
    IN IF hits = {} THEN None
       ELSE Some(FuzzyTargets[CHOOSE k \in hits : \A m \in hits : k <= m])

\* aliases[word]
AliasOf(word) == (CHOOSE alias \in Aliases : alias.word = word).prediction

\* Prediction.input_from_player: the prediction returned or the error raised.
InputFromPlayer(raw_prediction) ==
    LET normalized == ToLower(Strip(raw_prediction))
    IN IF \E alias \in Aliases : alias.word = normalized
       THEN [value |-> Some(AliasOf(normalized)), raised |-> None]
       ELSE LET fuzzy_match == FuzzyMatch(normalized)
            IN IF fuzzy_match # None
               THEN [value |-> Some(AliasOf(fuzzy_match[1])), raised |-> None]
               ELSE [value |-> None, raised |-> Some(InvalidPredictionError)]

\* The inputs typed: every string of up to MaxWordLen characters, every
\* string up to two edits (in four characters) away from a fuzzy target,
\* the word equal, and the aliases and their close spellings again in
\* capitals and between blanks.
MaxWordLen == 3
InputChars == {"h", "i", "g", "e", "r", "l", "o", "w", "x", "H", "L", " "}
EditChars == {"h", "l", "o", "x"}

Edits1(s) ==
    {s}
    \cup {Without(s, i) : i \in 1..Len(s)}
    \cup {[s EXCEPT ![i] = c] : i \in 1..Len(s), c \in EditChars}
    \cup {SubSeq(s, 1, i) \o <<c>> \o SubSeq(s, i + 1, Len(s)) :
              i \in 0..Len(s), c \in EditChars}

Edits2(s) == UNION {Edits1(t) : t \in Edits1(s)}

ToUpper(s) ==
    [i \in 1..Len(s) |->
        IF s[i] = "h" THEN "H" ELSE IF s[i] = "i" THEN "I"
        ELSE IF s[i] = "l" THEN "L" ELSE IF s[i] = "o" THEN "O"
        ELSE IF s[i] = "w" THEN "W" ELSE s[i]]

RawPredictions ==
    LET short == UNION {[1..n -> InputChars] : n \in 0..MaxWordLen}
        near == UNION {Edits2(FuzzyTargets[k]) : k \in 1..Len(FuzzyTargets)}
        close == {alias.word : alias \in Aliases}
                     \cup UNION {Edits1(FuzzyTargets[k]) :
                                    k \in 1..Len(FuzzyTargets)}
    IN short \cup near \cup {Equal}
         \cup {ToUpper(s) : s \in close}
         \cup {<<" ">> \o s \o <<"\t", " ">> : s \in close}
         \cup {<<"\t">> \o ToUpper(s) : s \in close}

\* Prediction.input_from_player(raw) called once on the input typed.
CallInputFromPlayer ==
    /\ call # None /\ ret = None
    /\ ret' = Some(InputFromPlayer(call[1].raw))
    /\ UNCHANGED <<state, pc, deck, current_card, counter, active_side_mission,
                   pending_side_mission, rounds_completed, session, round,
                   last, call>>

\* ------------------------------------------- _is_prediction_correct alone

\* The cards _is_prediction_correct is handed: the current card and a dealt
\* card that is not a joker.
PlainCards == {c \in AllCards : ~IsJoker(c)}

PredictionCalls ==
    {[current |-> c, next |-> n, prediction |-> p, reverse |-> r] :
        c \in PlainCards, n \in PlainCards, p \in Predictions, r \in BOOLEAN}

\* One call of InfiniteGame._is_prediction_correct.
CallIsPredictionCorrect ==
    /\ call # None /\ ret = None
    /\ ret' = Some(IsPredictionCorrect(call[1].current, call[1].next,
                                       call[1].prediction, call[1].reverse))
    /\ UNCHANGED <<gvars, call>>

\* ------------------------------------------------------ specification

InitBalances == {3}
InitCredits == {0}
InitBaseBet == 1

\* SessionData as it is handed to InfiniteGame.
InitSession ==
    {[balance |-> b, total_credits |-> t, base_bet |-> InitBaseBet,
      win_streak |-> 0, max_win_streak |-> 0,
      odds_level |-> 0, bet_level |-> 0, ai_counter |-> FALSE, joker_level |-> 0,
      side_missions_enabled |-> TRUE, calibration_enabled |-> TRUE,
      achievements |-> {}] : b \in InitBalances, t \in InitCredits}

\* InfiniteGame.__init__
GameInit ==
    /\ state = STARTUP
    /\ pc = "run"
    /\ deck = None
    /\ current_card = None
    /\ counter = NewCounter
    /\ active_side_mission = None
    /\ pending_side_mission = None
    /\ rounds_completed = 0
    /\ session \in InitSession
    /\ round = None
    /\ last = None

Init == GameInit /\ call = None /\ ret = None

InitPrediction ==
    /\ GameInit
    /\ call \in {Some(c) : c \in PredictionCalls}
    /\ ret = None

Next ==
    \/ HandleStartup
    \/ HandleDealingRebased
    \/ OfferAccept
    \/ OfferSkip
    \/ OfferCommand
    \/ Reprompt
    \/ Predict
    \/ PredictCommand
    \/ HandleShopping
    \/ ShopSelect
    \/ ShopBack
    \/ HandleSettings
    \/ SettingsSelect
    \/ SettingsBack
    \/ HandleAchievements

Spec == Init /\ [][Next]_vars

\* The same game through the 15 rounds before the first side mission and the
\* rounds of that mission.
NextFirstMission ==
    \/ HandleStartup
    \/ HandleDealingFirstMission
    \/ OfferAccept
    \/ OfferSkip
    \/ OfferCommand
    \/ Reprompt
    \/ Predict
    \/ PredictCommand
    \/ HandleShopping
    \/ ShopSelect
    \/ ShopBack
    \/ HandleSettings
    \/ SettingsSelect
    \/ SettingsBack
    \/ HandleAchievements

SpecFirstMission == Init /\ [][NextFirstMission]_vars

\* The game with the tallies of the session followed as they are, started
\* with a balance that buys no upgrade or with one that buys the first level
\* of the Bet Amplifier and leaves two stakes.
InitTallyBalances == {3, BetItem.base_cost + 4}

InitTally ==
    /\ state = STARTUP /\ pc = "run"
    /\ deck = None /\ current_card = None /\ counter = NewCounter
    /\ active_side_mission = None /\ pending_side_mission = None
    /\ rounds_completed = 0
    /\ round = None /\ last = None /\ call = None /\ ret = None
    /\ \E s \in InitSession, b \in InitTallyBalances :
          session = [s EXCEPT !.balance = b]

\* No mission is queued before SideMissionInterval rounds are completed, so
\* within MaxTallyRounds the dealing loop never stops at an offer.
NextTally ==
    \/ HandleStartup
    \/ HandleDealing
    \/ Reprompt
    \/ Predict
    \/ PredictCommand
    \/ HandleShopping
    \/ ShopSelect
    \/ ShopBack
    \/ HandleSettings
    \/ SettingsSelect
    \/ SettingsBack
    \/ HandleAchievements

SpecTally == InitTally /\ [][NextTally]_vars

NextPrediction == CallIsPredictionCorrect

SpecPrediction == InitPrediction /\ [][NextPrediction]_vars

\* A mission as SideMissionManager.start hands it to the game on acceptance,
\* with any balance up to MaxMissionBalance.
InitSideMission ==
    /\ state = DEALING
    /\ pc = "mission"
    /\ deck = None
    /\ current_card = None
    /\ counter = NewCounter
    /\ pending_side_mission = None
    /\ rounds_completed = SideMissionInterval
    /\ round = None
    /\ last = None
    /\ ret = None
    /\ \E d \in Definitions, s \in InitSession, b \in 0..MaxMissionBalance :
          /\ active_side_mission = Some(StartMission(d))
          /\ session = [s EXCEPT !.balance = b]
          /\ call = Some([definition |-> d, balance |-> b, wins |-> <<>>])

NextSideMission == UpdateSideMission

SpecSideMission == InitSideMission /\ [][NextSideMission]_vars

\* The game between two rounds with a mission queued and no mission active:
\* a deck that has dealt the current card, any definition of the catalogue,
\* any balance from the stake to MaxOfferBalance, side missions enabled or
\* switched off since the mission was queued.  call keeps the definition and
\* the balance.
InitOffer ==
    /\ state = DEALING
    /\ pc = "run"
    /\ active_side_mission = None
    /\ rounds_completed = SideMissionInterval
    /\ round = None
    /\ last = None
    /\ ret = None
    /\ \E d \in Definitions, s \in InitSession, b \in 1..MaxOfferBalance,
          enabled \in BOOLEAN, c \in DealShuffled(CreateStandardDeck(BaseJokers)) :
          /\ ~IsJoker(c.card)
          /\ pending_side_mission = Some(d)
          /\ session = [s EXCEPT !.balance = b, !.side_missions_enabled = enabled]
          /\ deck = Some(c.cards)
          /\ current_card = Some(c.card)
          /\ counter = OnDeckUpdated(c.cards)
          /\ call = Some([definition |-> d, balance |-> b])

NextOffer ==
    \/ HandleDealingOffer
    \/ OfferAccept
    \/ OfferSkip
    \/ OfferCommand

SpecOffer == InitOffer /\ [][NextOffer]_vars

\* AICardCounter.__init__: nothing delivered yet.
InitOdds == GameInit /\ call = None /\ ret = None

NextOdds ==
    \/ CallOnDeckUpdated
    \/ CallWinOdds

SpecOdds == InitOdds /\ [][NextOdds]_vars

\* A session at any odds level of the shop whose stake is the stake of the
\* call.
InitPayout ==
    /\ state = STARTUP /\ pc = "run"
    /\ deck = None /\ current_card = None /\ counter = NewCounter
    /\ active_side_mission = None /\ pending_side_mission = None
    /\ rounds_completed = 0
    /\ round = None /\ last = None /\ ret = None
    /\ \E c \in PayoutCalls, s \in InitSession, level \in 0..OddsItem.max_level :
          /\ c.odds.higher <= c.odds.den /\ c.odds.lower <= c.odds.den
          /\ call = Some(c)
          /\ session = [s EXCEPT !.base_bet = c.stake, !.odds_level = level]

NextPayout ==
    \/ CallCalculatePayout
    \/ CallBuildPayouts

SpecPayout == InitPayout /\ [][NextPayout]_vars

\* The balance the shop is entered with.
MaxShopBalance == 600000

\* The shop at its prompt, entered with upgrade levels anywhere within their
\* caps and a balance that buys some of the upgrades, never all of them.
\* call keeps the session the shop was entered with.
InitShop ==
    /\ state = SHOPPING /\ pc = "shop"
    /\ deck = None /\ current_card = None /\ counter = NewCounter
    /\ active_side_mission = None /\ pending_side_mission = None
    /\ rounds_completed = 0
    /\ round = None /\ last = None /\ ret = None
    /\ \E s \in InitSession,
          odds \in 0..OddsItem.max_level, bet \in 0..BetItem.max_level,
          joker \in 0..JokerItem.max_level, ai \in BOOLEAN :
          /\ session = [s EXCEPT !.balance = MaxShopBalance, !.odds_level = odds,
                                  !.bet_level = bet, !.joker_level = joker,
                                  !.ai_counter = ai]
          /\ call = Some([session |-> session])

NextShop ==
    \/ CallAttemptLevelPurchase
    \/ CallAttemptTogglePurchase

SpecShop == InitShop /\ [][NextShop]_vars

\* Deck.__init__(cards): the deck holds a copy of the list.
InitDeck ==
    /\ state = STARTUP /\ pc = "run"
    /\ current_card = None /\ counter = NewCounter
    /\ active_side_mission = None /\ pending_side_mission = None
    /\ rounds_completed = 0
    /\ session \in InitSession
    /\ round = None /\ last = None /\ ret = None
    /\ \E cards \in DeckLists :
          /\ deck = Some(cards)
          /\ call = Some([initial |-> cards, dealt |-> <<>>])

NextDeck ==
    \/ CallDeal
    \/ CallDealEmpty
    \/ CallShuffle

SpecDeck == InitDeck /\ [][NextDeck]_vars

\* The game from its construction, a few rounds of it with the tallies
\* followed as they are.
SpecRounds == Init /\ [][NextTally]_vars

\* The game handed a saved session one credit short of the final extraction.
InitExtraction ==
    /\ state = STARTUP /\ pc = "run"
    /\ deck = None /\ current_card = None /\ counter = NewCounter
    /\ active_side_mission = None /\ pending_side_mission = None
    /\ rounds_completed = 0
    /\ round = None /\ last = None /\ call = None /\ ret = None
    /\ \E s \in InitSession : session = [s EXCEPT !.total_credits = FinalCredits - 1]

SpecExtraction == InitExtraction /\ [][NextTally]_vars

\* The game at the top of the dealing loop after its 15th round: the mission
\* queued by that round still queued, accepted or skipped, a deck that has
\* dealt a 2 as the current card, a win streak of 2, and a balance of 3
\* stakes or one that buys the first level of the Bet Amplifier and leaves 1.
InitResumed ==
    /\ state = DEALING /\ pc = "run"
    /\ rounds_completed = SideMissionInterval
    /\ round = None /\ last = None /\ call = None /\ ret = None
    /\ \E s \in InitSession, b \in {3, BetItem.base_cost + 1}, streak \in {2},
          d \in Definitions, offer \in {"queued", "accepted", "skipped"},
          c \in DealShuffled(CreateStandardDeck(BaseJokers)) :
          /\ c.card.rank = RankTwo
          /\ pending_side_mission = (IF offer = "queued" THEN Some(d) ELSE None)
          /\ active_side_mission =
                (IF offer = "accepted" THEN Some(StartMission(d)) ELSE None)
          /\ session = [s EXCEPT !.balance = b, !.win_streak = streak,
                                  !.max_win_streak = streak]
          /\ deck = Some(c.cards)
          /\ current_card = Some(c.card)
          /\ counter = OnDeckUpdated(c.cards)

NextResumed ==
    \/ HandleDealingResumed
    \/ OfferAccept
    \/ OfferSkip
    \/ OfferCommand
    \/ Reprompt
    \/ Predict
    \/ PredictCommand
    \/ HandleShopping
    \/ ShopSelect
    \/ ShopBack
    \/ HandleSettings
    \/ SettingsSelect
    \/ SettingsBack
    \/ HandleAchievements

SpecResumed == InitResumed /\ [][NextResumed]_vars

\* DeckWatcher.__init__: no observers.
InitWatcher ==
    /\ state = STARTUP /\ pc = "idle"
    /\ deck = None /\ current_card = None /\ counter = NewCounter
    /\ active_side_mission = None /\ pending_side_mission = None
    /\ rounds_completed = 0
    /\ session \in InitSession
    /\ round = None /\ last = None /\ ret = None
    /\ call = Some([observers |-> <<>>, detached |-> {}])

NextWatcher ==
    \/ CallAttach
    \/ CallDetach
    \/ CallNotify
    \/ NotifyDeliver
    \/ NotifyReturn

SpecWatcher == InitWatcher /\ [][NextWatcher]_vars

\* A round under way with no mission or with any of the five missions just
\* started.
InitBonus ==
    /\ state = DEALING /\ pc = "predict"
    /\ deck = None /\ current_card = None /\ counter = NewCounter
    /\ active_side_mission \in
           {None} \cup {Some(StartMission(d)) : d \in Definitions}
    /\ pending_side_mission = None
    /\ rounds_completed = 0
    /\ session \in InitSession
    /\ round = None /\ last = None /\ call = None /\ ret = None

NextBonus == CallApplyBonusMultiplier

SpecBonus == InitBonus /\ [][NextBonus]_vars

\* A prediction prompt with one line of input typed.
InitParse ==
    /\ state = DEALING /\ pc = "predict"
    /\ deck = None /\ current_card = None /\ counter = NewCounter
    /\ active_side_mission = None /\ pending_side_mission = None
    /\ rounds_completed = 0
    /\ session \in InitSession
    /\ round = None /\ last = None /\ ret = None
    /\ call \in {Some([raw |-> raw]) : raw \in RawPredictions}

NextParse == CallInputFromPlayer

SpecParse == InitParse /\ [][NextParse]_vars

\* -------------------------------------------------------------- claims

\* The last step resolved a round.
RoundResolved == last # None /\ last[1].op = "round"

AllWins(h) == \A i \in 1..Len(h) : h[i]

\* C1: in every reachable state of the game the pending and the active side
\* mission are never both set.
AtMostOneSideMission ==
    ~(pending_side_mission # None /\ active_side_mission # None)

\* A mission accepted and advanced by a resolved round, none pending.
AtMostOneSideMissionWitness ==
    /\ RoundResolved
    /\ last[1].before.active_side_mission # None
    /\ active_side_mission # None
    /\ pending_side_mission = None

\* C2: an accepted Double-or-nothing mission completes, and the balance is
\* doubled once, at the round that is the 3rd consecutive win since the
\* acceptance; a loss before that fails the mission at that round and the
\* balance is not doubled.
DoubleOrNothingCompletesAtThirdWin ==
    call[1].definition.kind = DOUBLE_OR_NOTHING =>
        LET h == call[1].wins
            n == Len(h)
            done == n = 3 /\ AllWins(h)
            lost == n >= 1 /\ ~h[n]
        IN /\ n <= 3
           /\ \A i \in 1..n : ~h[i] => i = n
           /\ n >= 1 => /\ ret[1].mission.completed <=> done
                        /\ ret[1].mission.failed <=> lost
                        /\ ret[1].mission.wins_in_row = (IF lost THEN n - 1 ELSE n)
           /\ (active_side_mission = None) <=> (done \/ lost)
           /\ session.balance = (IF done THEN 2 * call[1].balance ELSE call[1].balance)

DoubleOrNothingCompletesAtThirdWinWitness ==
    /\ call[1].definition.kind = DOUBLE_OR_NOTHING
    /\ call[1].wins = <<TRUE, TRUE, TRUE>>
    /\ call[1].balance > 0
    /\ session.balance = 2 * call[1].balance
    /\ ret[1].mission.completed
    /\ active_side_mission = None

\* C3: for a current and a next card of equal rank _is_prediction_correct
\* returns False, for HIGHER and for LOWER, with reverse False and True.
EqualRankIsAlwaysLoss ==
    (ret # None /\ call[1].next.rank = call[1].current.rank) => ret[1] = FALSE

\* Two cards of one rank and different suits, a reversed call.
EqualRankIsAlwaysLossWitness ==
    /\ ret # None
    /\ call[1].next.rank = call[1].current.rank
    /\ call[1].next.suit # call[1].current.suit
    /\ call[1].reverse
    /\ ret[1] = FALSE

\* C4: for cards of different rank _is_prediction_correct with reverse False
\* is true exactly when HIGHER is called and the next rank is greater, or
\* LOWER is called and the next rank is smaller; with reverse True it is the
\* negation; so exactly one of HIGHER and LOWER wins in either mode.
DifferentRankOneCallWins ==
    (ret # None /\ call[1].next.rank # call[1].current.rank) =>
        LET c == call[1]
            normal == \/ c.prediction = HIGHER /\ c.next.rank > c.current.rank
                      \/ c.prediction = LOWER /\ c.next.rank < c.current.rank
        IN /\ ret[1] = (IF c.reverse THEN ~normal ELSE normal)
           /\ IsPredictionCorrect(c.current, c.next, HIGHER, c.reverse)
                 # IsPredictionCorrect(c.current, c.next, LOWER, c.reverse)

\* A reversed HIGHER call wins on a smaller next rank.
DifferentRankOneCallWinsWitness ==
    /\ ret # None
    /\ call[1].next.rank < call[1].current.rank
    /\ call[1].prediction = HIGHER
    /\ call[1].reverse
    /\ ret[1] = TRUE

\* C5: a joker dealt as the next card resolves the round as a win for either
\* prediction, reversed or not; the payout of the predicted direction is
\* credited, multiplied by the bonus of the active mission when that is
\* greater than 1; the side mission and the win streak advance as for a win.
JokerIsAutoWin ==
    (RoundResolved /\ last[1].next_card = JokerCard) =>
        LET r == last[1]
            b == r.before
            bonus == IF b.active_side_mission = None THEN 1
                     ELSE b.active_side_mission[1].definition.bonus_multiplier
            advanced == AdvanceMission(b.active_side_mission[1], TRUE)
        IN /\ r.win
           /\ r.payout # None
           /\ r.credited = (IF bonus > 1 THEN r.payout[1] * bonus ELSE r.payout[1])
           /\ r.balance = b.balance - r.stake + r.credited
           /\ session.win_streak = b.win_streak + 1
           /\ rounds_completed = b.rounds_completed + 1
           /\ active_side_mission =
                 (IF b.active_side_mission = None THEN None
                  ELSE IF advanced.active THEN Some(advanced) ELSE None)

\* A joker dealt under a mission with a bonus, on a HIGHER call.
JokerIsAutoWinWitness ==
    /\ RoundResolved
    /\ last[1].next_card = JokerCard
    /\ last[1].prediction = HIGHER
    /\ last[1].before.active_side_mission # None
    /\ last[1].before.active_side_mission[1].definition.bonus_multiplier > 1
    /\ last[1].credited > last[1].payout[1]

\* C6: at every prediction prompt at least one of HIGHER and LOWER has a
\* payout in the round's table.
SomePredictionHasPayout ==
    pc = "predict" =>
        \/ round[1].payout_table.higher # None
        \/ round[1].payout_table.lower # None

\* C7: a side mission becomes pending exactly at the end of a resolved round
\* at which side missions are enabled, no mission is pending or active after
\* the round's mission update, and the count of completed rounds is a
\* positive multiple of 15; no other step queues a new mission (a command at
\* the offer puts back the definition that was offered).
MissionQueuedOnlyAtInterval ==
    /\ RoundResolved =>
          ((pending_side_mission # None) <=>
              /\ session.side_missions_enabled
              /\ active_side_mission = None
              /\ last[1].before.pending_side_mission = None
              /\ rounds_completed > 0
              /\ rounds_completed % 15 = 0)
    /\ (pending_side_mission # None /\ ~RoundResolved) =>
          /\ last # None
          /\ last[1].op = "offer_command"
          /\ pending_side_mission = Some(last[1].definition)

\* A mission queued at the end of the 30th round.
MissionQueuedOnlyAtIntervalWitness ==
    /\ RoundResolved
    /\ pending_side_mission # None
    /\ rounds_completed = 30

\* C8: an accepted Gone Blind mission never fails; rounds_left decreases by 1
\* after every resolved round, won or lost, and the mission completes at the
\* end of the 3rd resolved round after the acceptance.
GoneBlindNeverFails ==
    call[1].definition.kind = GONE_BLIND =>
        LET n == Len(call[1].wins)
        IN /\ n <= 3
           /\ n >= 1 => /\ ~ret[1].mission.failed
                        /\ ret[1].mission.rounds_left = ret[1].before.rounds_left - 1
                        /\ ret[1].mission.rounds_left = 3 - n
                        /\ ret[1].mission.completed <=> n = 3
           /\ (active_side_mission = None) <=> n = 3
           /\ active_side_mission # None => active_side_mission[1].rounds_left = 3 - n

\* Three rounds, every one of them lost, and the mission completed.
GoneBlindNeverFailsWitness ==
    /\ call[1].definition.kind = GONE_BLIND
    /\ call[1].wins = <<FALSE, FALSE, FALSE>>
    /\ ret[1].mission.completed
    /\ active_side_mission = None

\* C9: for an accepted Lucky Seven (7 rounds) or Reverse Psychology (3
\* rounds) mission each won round decrements rounds_left by 1 and the mission
\* completes exactly when rounds_left reaches 0; the first lost round fails
\* the mission at once and leaves rounds_left unchanged.
CountdownMissionFailsOnFirstLoss ==
    call[1].definition.kind \in {LUCKY_SEVEN, REVERSE_PSYCHOLOGY} =>
        LET h == call[1].wins
            n == Len(h)
            rounds == IF call[1].definition.kind = LUCKY_SEVEN THEN 7 ELSE 3
        IN /\ n <= rounds
           /\ \A i \in 1..n : ~h[i] => i = n
           /\ n >= 1 =>
                 LET before == ret[1].before
                     mission == ret[1].mission
                 IN IF h[n]
                    THEN /\ mission.rounds_left = before.rounds_left - 1
                         /\ mission.rounds_left = rounds - n
                         /\ ~mission.failed
                         /\ mission.completed <=> mission.rounds_left = 0
                    ELSE /\ mission.failed
                         /\ ~mission.completed
                         /\ mission.rounds_left = before.rounds_left
                         /\ mission.rounds_left = rounds - (n - 1)
           /\ (active_side_mission = None) <=> (n >= 1 /\ (~h[n] \/ n = rounds))
           /\ active_side_mission # None => active_side_mission[1].rounds_left = rounds - n

\* A Lucky Seven mission completed by its 7th won round.
CountdownMissionFailsOnFirstLossWitness ==
    /\ call[1].definition.kind = LUCKY_SEVEN
    /\ Len(call[1].wins) = 7
    /\ ret[1].mission.completed
    /\ ret[1].mission.rounds_left = 0
    /\ active_side_mission = None

\* C10: an accepted Big Money mission lasts exactly one resolved round: won,
\* the mission completes and the payout of the round was multiplied by 5;
\* lost, the mission fails; no mission is active in the following round.
BigMoneyLastsOneRound ==
    /\ (active_side_mission # None
          /\ active_side_mission[1].definition.kind = BIG_MONEY) => ~RoundResolved
    /\ (RoundResolved /\ last[1].before.active_side_mission # None
          /\ last[1].before.active_side_mission[1].definition.kind = BIG_MONEY) =>
          LET r == last[1]
          IN /\ active_side_mission = None
             /\ IF r.win
                THEN /\ r.mission[1].completed /\ ~r.mission[1].failed
                     /\ "shadow_operator" \in session.achievements
                     /\ r.payout # None
                     /\ r.credited = 5 * r.payout[1]
                     /\ r.balance = r.before.balance - r.stake + 5 * r.payout[1]
                ELSE /\ r.mission[1].failed /\ ~r.mission[1].completed
                     /\ r.credited = 0
                     /\ r.balance = r.before.balance - r.stake

\* A Big Money round won on a card that is no joker.
BigMoneyLastsOneRoundWitness ==
    /\ RoundResolved
    /\ last[1].before.active_side_mission # None
    /\ last[1].before.active_side_mission[1].definition.kind = BIG_MONEY
    /\ last[1].win /\ ~last[1].joker
    /\ last[1].credited = 5 * last[1].payout[1]
    /\ active_side_mission = None

\* C11: whenever _update_side_mission_after_round leaves a mission completed
\* or failed, the mission is inactive and no mission is attached when the
\* call returns; completed and failed are never both true; shadow_operator
\* is unlocked by a completion and never by a failure.
EndedMissionIsDetached ==
    ret # None =>
        LET m == ret[1].mission
        IN /\ ~(m.completed /\ m.failed)
           /\ (m.completed \/ m.failed) <=> ~m.active
           /\ (m.completed \/ m.failed) <=> active_side_mission = None
           /\ active_side_mission # None => active_side_mission[1] = m
           /\ m.completed => "shadow_operator" \in session.achievements
           /\ ~m.completed => "shadow_operator" \notin session.achievements

\* A Reverse Psychology mission failed by a loss in its second round.
EndedMissionIsDetachedWitness ==
    /\ ret # None
    /\ call[1].definition.kind = REVERSE_PSYCHOLOGY
    /\ call[1].wins = <<TRUE, FALSE>>
    /\ ret[1].mission.failed
    /\ active_side_mission = None
    /\ "shadow_operator" \notin session.achievements

\* C12: at the start of every round in which a Gone Blind (resp. Reverse
\* Psychology) mission is attached as active, the mission has rounds left and
\* the round is played blind (resp. reversed); a round is played blind or
\* reversed only under such a mission, so none is after the mission has
\* completed or failed.
ModifiersFollowActiveMission ==
    LET blind(m) == m # None /\ m[1].definition.kind = GONE_BLIND
        reversed(m) == m # None /\ m[1].definition.kind = REVERSE_PSYCHOLOGY
    IN /\ pc = "predict" =>
             /\ round[1].blind_active <=> blind(active_side_mission)
             /\ round[1].reverse_active <=> reversed(active_side_mission)
             /\ active_side_mission # None =>
                   /\ active_side_mission[1].rounds_left > 0
                   /\ active_side_mission[1].active
                   /\ ~active_side_mission[1].completed
                   /\ ~active_side_mission[1].failed
             /\ blind(active_side_mission) => IsBlind(active_side_mission[1])
             /\ reversed(active_side_mission) => IsReverse(active_side_mission[1])
       /\ RoundResolved =>
             /\ last[1].blind_active <=> blind(last[1].before.active_side_mission)
             /\ last[1].reverse_active <=> reversed(last[1].before.active_side_mission)

\* The third blind round of a Gone Blind mission, which completes it.
ModifiersFollowActiveMissionWitness ==
    /\ RoundResolved
    /\ last[1].blind_active
    /\ last[1].before.active_side_mission[1].definition.kind = GONE_BLIND
    /\ last[1].before.active_side_mission[1].rounds_left = 1
    /\ last[1].mission[1].completed
    /\ active_side_mission = None

\* C13: resolving an offer leaves no mission pending.  On acceptance exactly
\* the offered definition becomes the active mission, with rounds_left =
\* rounds (wins_required when rounds is 0), wins_in_row = 0 and active = True,
\* and the balance is unchanged.  On skip no mission becomes active and the
\* balance is reduced by max(1, round(balance x 10%)), floored at 0, for Gone
\* Blind, the one kind with a skip penalty, and unchanged for the others.
OfferResolvedClearsPending ==
    LET d == call[1].definition
        b == call[1].balance
        tenth == (b * 10) \div 100
        rest == (b * 10) % 100
        rounded == IF rest < 50 THEN tenth
                   ELSE IF rest > 50 THEN tenth + 1
                   ELSE IF tenth % 2 = 0 THEN tenth ELSE tenth + 1
        fee == IF rounded < 1 THEN 1 ELSE rounded
    IN /\ (last # None /\ last[1].op = "accept") =>
             /\ last[1].definition = d
             /\ pending_side_mission = None
             /\ active_side_mission =
                   Some([definition |-> d,
                         rounds_left |-> IF d.rounds = 0 THEN d.wins_required ELSE d.rounds,
                         wins_in_row |-> 0, active |-> TRUE,
                         completed |-> FALSE, failed |-> FALSE])
             /\ active_side_mission[1].rounds_left > 0
             /\ session.balance = b
       /\ (last # None /\ last[1].op = "skip") =>
             /\ last[1].definition = d
             /\ pending_side_mission = None
             /\ active_side_mission = None
             /\ (d.skip_penalty_percent # None) <=> d.kind = GONE_BLIND
             /\ session.balance =
                   (IF d.kind = GONE_BLIND
                    THEN (IF b - fee < 0 THEN 0 ELSE b - fee)
                    ELSE b)
       /\ pc = "offer" => pending_side_mission = None /\ active_side_mission = None

\* A Gone Blind mission skipped at a balance of 25: the fee is round(2.5) = 2.
OfferResolvedClearsPendingWitness ==
    /\ last # None /\ last[1].op = "skip"
    /\ call[1].definition.kind = GONE_BLIND
    /\ call[1].balance = 25
    /\ session.balance = 23
    /\ pending_side_mission = None
    /\ active_side_mission = None

\* C14: for the snapshot last delivered and any current card, win_odds
\* returns (0, 0, 0) when the snapshot is empty or the current card is a
\* joker; otherwise joker = jokers/total, higher = (non-joker cards of rank
\* strictly greater than the current)/total + joker and lower = (non-joker
\* cards of rank strictly less)/total + joker.
WinOddsCountsStrictRanks ==
    ret # None =>
        LET remaining == IF call = None THEN <<>> ELSE call[1].remaining
            current == ret[1].current
            odds == ret[1].odds
            total == Len(remaining)
            plain == {i \in 1..total : remaining[i] # JokerCard}
            jokers == total - Cardinality(plain)
            above == Cardinality({i \in plain : remaining[i].rank > current.rank})
            below == Cardinality({i \in plain : remaining[i].rank < current.rank})
        IN IF total = 0 \/ current = JokerCard
           THEN odds.higher = 0 /\ odds.lower = 0 /\ odds.joker = 0
           ELSE /\ odds.den > 0
                /\ odds.joker * total = jokers * odds.den
                /\ odds.higher * total = (above + jokers) * odds.den
                /\ odds.lower * total = (below + jokers) * odds.den

\* A card above, a card below and a joker remaining: higher = lower = 2/3
\* and joker = 1/3.
WinOddsCountsStrictRanksWitness ==
    /\ ret # None /\ call # None
    /\ ret[1].current.rank = 3
    /\ Len(call[1].remaining) = 3
    /\ \E i, j, k \in 1..3 :
          /\ call[1].remaining[i].rank = 4
          /\ call[1].remaining[j].rank = 2
          /\ call[1].remaining[k] = JokerCard
    /\ ret[1].odds = [higher |-> 2, lower |-> 2, joker |-> 1, den |-> 3]

\* C15 as stated: every value win_odds returns satisfies
\* higher + lower + joker <= 1.
OddsSumAtMostOne ==
    ret # None =>
        ret[1].odds.higher + ret[1].odds.lower + ret[1].odds.joker <= ret[1].odds.den

\* C15 amended: every value win_odds returns has joker, higher and lower
\* within [0, 1], with joker counted in both higher and lower; it satisfies
\* higher + lower + joker <= 1 when no joker remains in the snapshot, and
\* higher + lower + joker <= 3 otherwise.
OddsEachAtMostOne ==
    ret # None =>
        LET odds == ret[1].odds
        IN /\ odds.den > 0
           /\ 0 <= odds.joker /\ odds.joker <= odds.higher /\ odds.joker <= odds.lower
           /\ odds.higher <= odds.den /\ odds.lower <= odds.den
           /\ odds.joker = 0 => odds.higher + odds.lower + odds.joker <= odds.den
           /\ odds.higher + odds.lower + odds.joker <= 3 * odds.den

\* Only jokers remaining: higher = lower = joker = 1.
OddsEachAtMostOneWitness ==
    /\ ret # None /\ call # None
    /\ call[1].remaining = <<JokerCard, JokerCard>>
    /\ ret[1].current # JokerCard
    /\ ret[1].odds = [higher |-> 2, lower |-> 2, joker |-> 2, den |-> 2]

\* C16: _calculate_payout returns None exactly when the probability is <= 0
\* and an integer payout for every probability > 0; _build_payouts offers a
\* direction exactly when its win probability is positive.
PayoutNoneIffNoChance ==
    ret # None =>
        LET odds == call[1].odds
        IN IF ret[1].op = "calculate"
           THEN /\ ret[1].payout = None <=> odds.higher <= 0
                /\ odds.higher > 0 => ret[1].payout[1] \in Int
           ELSE /\ ret[1].table.stake = call[1].stake
                /\ ret[1].table.higher = None <=> odds.higher <= 0
                /\ ret[1].table.lower = None <=> odds.lower <= 0
                /\ odds.higher > 0 => ret[1].table.higher[1] \in Int
                /\ odds.lower > 0 => ret[1].table.lower[1] \in Int

\* A table that offers HIGHER, a certainty that would pay less than the
\* stake, and no LOWER.
PayoutNoneIffNoChanceWitness ==
    /\ ret # None /\ ret[1].op = "build"
    /\ call[1].odds.higher = call[1].odds.den
    /\ call[1].odds.lower = 0
    /\ session.odds_level = 0
    /\ call[1].stake = MaxStake
    /\ ret[1].table.higher = Some(MaxStake)
    /\ ret[1].table.lower = None

\* C17: for every stake, every probability in (0, 1] and every odds level
\* the payout _calculate_payout returns is at least the stake, also when
\* the multiplier after the house edge is below 1.
PayoutAtLeastStake ==
    (ret # None /\ ret[1].op = "calculate"
        /\ 0 < call[1].odds.higher /\ call[1].odds.higher <= call[1].odds.den) =>
        /\ ret[1].payout # None
        /\ ret[1].payout[1] >= call[1].stake

\* Probability 1 at odds level 0 and stake 10: 9.4 rounds to 9 and the
\* stake is paid.
PayoutAtLeastStakeWitness ==
    /\ ret # None /\ ret[1].op = "calculate"
    /\ call[1].odds.higher = call[1].odds.den
    /\ session.odds_level = 0
    /\ call[1].stake = 10
    /\ 94 * call[1].stake < 100 * call[1].stake - 50
    /\ ret[1].payout = Some(10)

\* C18: the stake recorded in the payout table of a round is base_bet x
\* 2^bet_level as the session has it when the table is built, so also right
\* after a Bet Amplifier purchase, and the stake a resolved round deducted
\* is the stake of its table.
StakeFollowsBetLevel ==
    /\ pc = "predict" =>
          round[1].payout_table.stake = session.base_bet * 2^(session.bet_level)
    /\ RoundResolved =>
          /\ last[1].stake = session.base_bet * 2^(session.bet_level)
          /\ last[1].balance = last[1].before.balance - last[1].stake + last[1].credited
          /\ ~last[1].win => last[1].credited = 0

\* A first round lost at the base stake, the Bet Amplifier bought with what
\* was left, and the second round played at twice the stake.
StakeFollowsBetLevelWitness ==
    /\ RoundResolved
    /\ session.bet_level = 1
    /\ last[1].stake = 2 * session.base_bet
    /\ last[1].before.rounds_completed = 1
    /\ last[1].before.balance = BetItem.base_cost + 4 - session.base_bet - BetItem.base_cost
    /\ last[1].before.total_credits = 0

\* C19: from upgrade levels within their caps, after any sequence of shop
\* selections odds_level <= 7, bet_level <= 7 and joker_level <= 1, so the
\* odds and bet multipliers are powers of two that never exceed 2^7.
UpgradeLevelsWithinCaps ==
    /\ session.odds_level \in 0..7
    /\ session.bet_level \in 0..7
    /\ session.joker_level \in 0..1
    /\ OddsMultiplier(session) = 2^(session.odds_level)
    /\ BetMultiplier(session) = 2^(session.bet_level)
    /\ OddsMultiplier(session) <= 128
    /\ BetMultiplier(session) <= 128

\* The Odds Augmenter bought seven times and the Double Jokers once, from
\* level 0.
UpgradeLevelsWithinCapsWitness ==
    /\ call[1].session.odds_level = 0
    /\ call[1].session.joker_level = 0
    /\ session.odds_level = 7
    /\ session.joker_level = 1
    /\ session.balance = call[1].session.balance - 4000 * 127 - 60000

\* How many places of a sequence hold the card c.
CountOf(cards, c) == Cardinality({i \in 1..Len(cards) : cards[i] = c})

\* C20: every deal() on a non-empty deck returns the last card of the
\* sequence, shortens it by exactly 1 and leaves the other cards in their
\* order; so the i-th card dealt is the card at the i-th place from the end
\* of the initial sequence, no place is dealt twice, and the cards dealt
\* plus the cards remaining are the initial multiset.
DealTakesLastCard ==
    LET initial == call[1].initial
        dealt == call[1].dealt
        n == Len(initial)
        k == Len(dealt)
    IN /\ k <= n
       /\ Len(deck[1]) = n - k
       /\ deck[1] = SubSeq(initial, 1, n - k)
       /\ \A i \in 1..k : dealt[i] = initial[n - i + 1]
       /\ (k >= 1 /\ last = None) => ret = Some(initial[n - k + 1])
       /\ \A c \in SnapshotCards :
             CountOf(dealt, c) + CountOf(deck[1], c) = CountOf(initial, c)

\* A deck of four cards, two of them jokers, dealt to the end.
DealTakesLastCardWitness ==
    /\ Len(call[1].initial) = 4
    /\ call[1].initial[1] = JokerCard
    /\ call[1].initial[2] = JokerCard
    /\ call[1].initial[3].rank # call[1].initial[4].rank
    /\ Len(call[1].dealt) = 4
    /\ deck = Some(<<>>)
    /\ ret = Some(JokerCard)

\* C21: deal() on a deck with no cards raises DeckEmptyError, returns no
\* card and leaves the deck empty, with nothing dealt and nothing refilled.
DealOnEmptyDeckRaises ==
    (last # None /\ last[1].op = "deal") =>
        /\ last[1].raised = Some(DeckEmptyError)
        /\ ret = None
        /\ deck = Some(<<>>)
        /\ Len(call[1].dealt) = Len(call[1].initial)

\* A deck of four cards dealt to the end and dealt from once more.
DealOnEmptyDeckRaisesWitness ==
    /\ last # None /\ last[1].op = "deal"
    /\ last[1].raised = Some(DeckEmptyError)
    /\ Len(call[1].initial) = 4
    /\ Len(call[1].dealt) = 4
    /\ deck = Some(<<>>)

\* C22: a call of notify delivers one and the same snapshot to every
\* attached observer exactly once, in the order of the list, before it
\* returns, and nothing to an observer that was detached.
NotifyDeliversInOrder ==
    (last # None /\ last[1].op \in {"notify", "notified"}) =>
        LET observers == call[1].observers
            done == IF last[1].op = "notified" THEN Len(observers)
                    ELSE last[1].i - 1
        IN /\ ret # None
           /\ Len(ret[1]) = done
           /\ \A k \in 1..done :
                 /\ ret[1][k].observer = observers[k]
                 /\ ret[1][k].snapshot = last[1].snapshot
           /\ \A o \in Observers :
                 Cardinality({k \in 1..done : ret[1][k].observer = o})
                     = IF \E k \in 1..done : observers[k] = o THEN 1 ELSE 0
           /\ \A k \in 1..done : ret[1][k].observer \notin call[1].detached

\* A notify that returned with two observers attached in the order
\* third, ai_counter, and with the second one detached before.
NotifyDeliversInOrderWitness ==
    /\ last # None /\ last[1].op = "notified"
    /\ call[1].observers = <<"third", "ai_counter">>
    /\ call[1].detached = {"second"}
    /\ Len(last[1].snapshot) = 2
    /\ Len(ret[1]) = 2

\* C23: attach of an attached observer and detach of an unattached one
\* change nothing; an observer is in the list at most once, a new one goes
\* to the end and a removal keeps the order of the others.
AttachDetachIdempotent ==
    (pc = "idle" /\ call # None) =>
        LET observers == call[1].observers
        IN /\ \A i, j \in 1..Len(observers) :
                 observers[i] = observers[j] => i = j
           /\ \A o \in Observers :
                 /\ Attach(Attach(observers, o), o) = Attach(observers, o)
                 /\ Detach(Detach(observers, o), o) = Detach(observers, o)
           /\ (last # None /\ last[1].op = "attach") =>
                 observers = IF \E i \in 1..Len(last[1].before) :
                                    last[1].before[i] = last[1].observer
                             THEN last[1].before
                             ELSE last[1].before \o <<last[1].observer>>
           /\ (last # None /\ last[1].op = "detach") =>
                 observers = SelectSeq(last[1].before,
                                       LAMBDA o : o # last[1].observer)

\* An observer attached again while two are attached, the list unchanged.
AttachDetachIdempotentWitness ==
    /\ pc = "idle"
    /\ last # None /\ last[1].op = "attach"
    /\ last[1].observer = "third"
    /\ last[1].before = <<"third", "ai_counter">>
    /\ call[1].observers = <<"third", "ai_counter">>

\* C24: _apply_bonus_multiplier returns the payout times the bonus of the
\* attached mission when that bonus is above 1 (5 for Big Money, 3 for
\* Lucky Seven) and the payout itself with no mission or any other mission.
BonusMultipliesPayout ==
    (call # None /\ ret # None) =>
        LET payout == call[1].payout
            kind == IF active_side_mission = None THEN None
                    ELSE Some(active_side_mission[1].definition.kind)
        IN ret[1] = IF kind = Some(BIG_MONEY) THEN 5 * payout
                    ELSE IF kind = Some(LUCKY_SEVEN) THEN 3 * payout
                    ELSE payout

\* A payout of 7 tripled under Lucky Seven.
BonusMultipliesPayoutWitness ==
    /\ call # None /\ call[1].payout = 7
    /\ active_side_mission # None
    /\ active_side_mission[1].definition.kind = LUCKY_SEVEN
    /\ ret = Some(21)

\* One deletion, one insertion or one substitution at most between s and t.
WithinOneEdit(s, t) ==
    \/ s = t
    \/ /\ Len(s) = Len(t)
       /\ Cardinality({i \in 1..Len(s) : s[i] # t[i]}) = 1
    \/ /\ Len(s) = Len(t) + 1
       /\ \E i \in 1..Len(s) : Without(s, i) = t
    \/ /\ Len(t) = Len(s) + 1
       /\ \E i \in 1..Len(t) : Without(t, i) = s

\* C25: after trimming and lower-casing, input_from_player returns HIGHER
\* for h, hi, high, higher and every string one edit from high or higher,
\* LOWER for l, lo, low, lower and every string one edit from low or lower,
\* and raises InvalidPredictionError for everything else; no input is both.
InputParsedAsSpelled ==
    (call # None /\ ret # None) =>
        LET word == ToLower(Strip(call[1].raw))
            high == \/ word \in {<<"h">>, <<"h", "i">>, High, Higher}
                    \/ WithinOneEdit(word, High)
                    \/ WithinOneEdit(word, Higher)
            low == \/ word \in {<<"l">>, <<"l", "o">>, Low, Lower}
                   \/ WithinOneEdit(word, Low)
                   \/ WithinOneEdit(word, Lower)
        IN /\ ~(high /\ low)
           /\ high => ret[1] = [value |-> Some(HIGHER), raised |-> None]
           /\ low => ret[1] = [value |-> Some(LOWER), raised |-> None]
           /\ (~high /\ ~low) =>
                 ret[1] = [value |-> None,
                           raised |-> Some(InvalidPredictionError)]

\* " lowr" with a tab and a blank after it read as LOWER.
InputParsedAsSpelledWitness ==
    /\ call # None /\ ret # None
    /\ call[1].raw = <<" ", "l", "o", "w", "r", "\t", " ">>
    /\ ret[1].value = Some(LOWER)

\* C26: a level upgrade is sold exactly when its level is below the item's
\* maximum and the balance covers base_cost * 2^level; a sale takes exactly
\* that cost off the balance and adds one level, a refusal changes nothing,
\* and the shop never leaves the balance below zero.
LevelPurchaseIffAffordable ==
    /\ (pc = "shop" /\ ret # None) => session.balance >= 0
    /\ (pc = "shop" /\ ret # None /\ ret[1].op = "level") =>
          LET item == ret[1].item
              before == ret[1].before
              level == before[item.attribute]
              cost == item.base_cost * (2 ^ level)
          IN IF level < item.max_level /\ before.balance >= cost
             THEN session = [before EXCEPT !.balance = before.balance - cost,
                                           ![item.attribute] = level + 1]
             ELSE session = before

\* The Odds Augmenter refused below its cap for lack of funds, after
\* purchases that brought the balance down.
LevelPurchaseIffAffordableWitness ==
    /\ pc = "shop" /\ ret # None /\ ret[1].op = "level"
    /\ ret[1].item = OddsItem
    /\ ret[1].before.odds_level < OddsItem.max_level
    /\ 0 < ret[1].before.balance
    /\ ret[1].before.balance < OddsItem.base_cost * (2 ^ ret[1].before.odds_level)
    /\ ret[1].before.balance < MaxShopBalance
    /\ session = ret[1].before

\* C27: at the prediction prompt an answer that is no prediction, or a
\* prediction whose payout is None, changes nothing and the prompt stays; a
\* command leaves the round with the balance and the deck untouched; the
\* stake is taken and a card dealt only for a prediction with a payout.
StakeOnlyAfterPayablePrediction ==
    [][pc = "predict" =>
          \/ /\ last' = Some([op |-> "command"])
             /\ session' = session /\ deck' = deck
             /\ current_card' = current_card
          \/ /\ last' # None /\ last'[1].op = "round"
             /\ last'[1].payout # None
             /\ last'[1].payout =
                   PayoutForPrediction(last'[1].prediction, round[1].payout_table)
             /\ last'[1].stake = round[1].payout_table.stake
             /\ last'[1].before.balance = session.balance
             /\ \E i \in 1..Len(deck[1]) : last'[1].next_card = deck[1][i]]_vars

\* A prompt after two rounds where HIGHER has no payout and LOWER has one.
StakeOnlyAfterPayablePredictionWitness ==
    /\ pc = "predict" /\ round # None
    /\ rounds_completed >= 2
    /\ round[1].payout_table.higher = None
    /\ round[1].payout_table.lower # None

\* C28: the session balance is never negative, whatever the stakes, fees
\* and purchases taken from it.
BalanceNeverNegative == session.balance >= 0

\* C29: whenever the round computes its odds, and at every other moment a
\* deck exists, the counter's count of each rank, its joker count and its
\* total are those of the cards remaining in the deck (overwritten at every
\* notification, never added up), and the odds shown are the odds of these
\* counts.
CounterMatchesDeck ==
    /\ deck # None =>
          /\ counter.total = Len(deck[1])
          /\ counter.joker_count = Len(SelectSeq(deck[1], LAMBDA c : IsJoker(c)))
          /\ \A r \in DeckRanks :
                counter.rank_counts[r] =
                    Len(SelectSeq(deck[1], LAMBDA c : ~IsJoker(c) /\ c.rank = r))
          /\ \A r \in Ranks \ DeckRanks : counter.rank_counts[r] = 0
    /\ (pc = "predict" /\ round # None) =>
          /\ deck # None
          /\ round[1].exact_odds = WinOdds(counter, current_card[1])
          /\ round[1].exact_odds.den = Len(deck[1])

\* The odds of the fourth round, dealt from the second deck of the game:
\* four cards left of it, one of them a joker.
CounterMatchesDeckWitness ==
    /\ pc = "predict" /\ round # None
    /\ rounds_completed = 3
    /\ Len(deck[1]) = 4
    /\ counter.total = 4
    /\ counter.joker_count = 1
    /\ round[1].exact_odds.den = 4

\* C30: the game never deals from an empty deck: no step of play ends in a
\* DeckEmptyError, and every prediction prompt has a card left to deal.
NoDealFromEmptyDeck ==
    /\ state # RAISED
    /\ (last # None => last[1].op # "raised")
    /\ pc = "predict" => (deck # None /\ Len(deck[1]) >= 1)

\* A round that dealt the last card of its deck and left a fresh deck with
\* its starting card taken.
NoDealFromEmptyDeckWitness ==
    /\ RoundResolved
    /\ rounds_completed >= 2
    /\ state = DEALING
    /\ Len(deck[1]) = Len(CreateStandardDeck(BaseJokers)) - 1
    /\ current_card # None

\* C31: the current card is never a joker: every prediction prompt shows a
\* card that is no joker, and after a round resolved by a joker the current
\* card is a newly dealt card that is no joker, the dealt joker never being
\* carried over.
CurrentCardNeverJoker ==
    /\ current_card # None => ~IsJoker(current_card[1])
    /\ pc = "predict" => current_card # None
    /\ (RoundResolved /\ last[1].joker) =>
          /\ current_card # None
          /\ current_card[1] # last[1].next_card

\* A round resolved by a joker after which a fresh deck was primed and its
\* starting card taken.
CurrentCardNeverJokerWitness ==
    /\ RoundResolved /\ last[1].joker
    /\ state = DEALING
    /\ rounds_completed >= 2
    /\ Len(deck[1]) = Len(CreateStandardDeck(BaseJokers)) - 1
    /\ current_card # None /\ ~IsJoker(current_card[1])

\* C32: every round resolved as a win, by a joker or by a correct call,
\* reversed or not, has a payout for the chosen prediction that is at least
\* the stake, and credits it: the balance after the credit is never below
\* the balance before the stake was taken.
WinCreditsPayout ==
    (RoundResolved /\ last[1].win) =>
        LET r == last[1]
        IN /\ r.payout # None
           /\ r.payout[1] >= r.stake
           /\ r.credited >= r.payout[1]
           /\ r.balance = r.before.balance - r.stake + r.credited
           /\ r.balance >= r.before.balance

\* A call won under Reverse Psychology by a card that is no joker.
WinCreditsPayoutWitness ==
    /\ RoundResolved /\ last[1].win
    /\ ~last[1].joker
    /\ last[1].reverse_active
    /\ last[1].payout # None
    /\ last[1].credited >= last[1].stake

\* C33: an accepted side mission of any kind is completed or failed, and
\* detached, after at most as many resolved rounds as its definition gives
\* (rounds, or wins_required when rounds is 0), which is at most 7; while it
\* is attached fewer rounds than that have been resolved since acceptance.
MissionEndsWithinItsRounds ==
    LET d == call[1].definition
        n == Len(call[1].wins)
        limit == IF d.rounds # 0 THEN d.rounds ELSE d.wins_required
    IN /\ limit <= 7
       /\ n <= limit
       /\ active_side_mission # None =>
             /\ n < limit
             /\ active_side_mission[1].active
       /\ n = limit => active_side_mission = None
       /\ (n >= 1 /\ active_side_mission = None) =>
             (ret[1].mission.completed \/ ret[1].mission.failed)

\* A Gone Blind mission detached by its third round, after lost and won
\* rounds.
MissionEndsWithinItsRoundsWitness ==
    /\ call[1].definition.kind = GONE_BLIND
    /\ call[1].wins = <<FALSE, TRUE, FALSE>>
    /\ ret[1].mission.completed
    /\ active_side_mission = None

\* C34: a shop, settings, achievements or exit command at the prediction
\* prompt abandons the round without effect: the session (balance and win
\* streak), the deck, the counter, the current card, the count of completed
\* rounds and the side-mission state are as before, and only the state
\* changes; from there until dealing resumes the deck, the current card, the
\* count of rounds, the win streak and the mission stay the same, and the
\* dealing loop either ends the game for lack of funds or opens the next
\* round on that card and deck.
CommandAbandonsRound ==
    [][/\ (pc = "predict" /\ last' = Some([op |-> "command"])) =>
             /\ state' \in CommandStates /\ pc' = "run"
             /\ session' = session
             /\ deck' = deck /\ counter' = counter
             /\ current_card' = current_card
             /\ rounds_completed' = rounds_completed
             /\ active_side_mission' = active_side_mission
             /\ pending_side_mission' = pending_side_mission
       /\ (pc # "predict" /\ last = Some([op |-> "command"])) =>
             /\ deck' = deck /\ counter' = counter
             /\ current_card' = current_card
             /\ rounds_completed' = rounds_completed
             /\ session'.win_streak = session.win_streak
             /\ active_side_mission' = active_side_mission
             /\ pending_side_mission' = pending_side_mission
             /\ (pc = "run" /\ state = DEALING) =>
                   \/ /\ state' = TERMINATED
                      /\ session.balance < StakeAmount(session)
                   \/ /\ pc' = "predict"
                      /\ session' = session
                      /\ round'[1].exact_odds = WinOdds(counter, current_card[1])]_vars

\* Dealing about to resume after a command left a round of a mission that
\* had already advanced, with a win streak of 3.
CommandAbandonsRoundWitness ==
    /\ last = Some([op |-> "command"])
    /\ pc = "run" /\ state = DEALING
    /\ session.win_streak = 3
    /\ rounds_completed = SideMissionInterval + 1
    /\ active_side_mission # None
    /\ active_side_mission[1].rounds_left < active_side_mission[1].definition.rounds
    /\ current_card # None

\* C35: the dealing loop ends the game when it finds the balance at 0 or
\* below the stake, and a round resolved by a card that is no joker ends it
\* when its settlement leaves the balance at 0; a game that is TERMINATED takes no
\* further step, and in the step that ends it nothing is dealt or deducted
\* once the state is TERMINATED: the round's own next card is the only card
\* taken from the deck and the balance is the one the round settled.
TerminatedGameDealsNoCard ==
    [][/\ (pc = "run" /\ state = DEALING
             /\ (session.balance <= 0 \/ session.balance < StakeAmount(session))) =>
             state' = TERMINATED
       /\ (pc = "predict" /\ last' # None /\ last'[1].op = "round"
             /\ ~last'[1].joker /\ last'[1].balance <= 0) =>
             state' = TERMINATED
       /\ state = TERMINATED => UNCHANGED vars
       /\ (pc = "predict" /\ last' # None /\ last'[1].op = "round"
             /\ state' = TERMINATED) =>
             /\ \E i \in 1..Len(deck[1]) :
                   /\ deck[1][i] = last'[1].next_card
                   /\ deck' = Some(Without(deck[1], i))
             /\ session'.balance = last'[1].balance
             /\ rounds_completed' = rounds_completed + 1]_vars

\* C36: a round resolved as a loss credits nothing: its settlement leaves
\* the balance lower by exactly the round's stake, total_credits and
\* max_win_streak are as before the round and win_streak is 0.  (After the
\* settlement the balance changes only if the round emptied the deck and the
\* calibration of the new deck is paid for.)
LossTakesStakeOnly ==
    (RoundResolved /\ ~last[1].win) =>
        LET r == last[1]
            b == r.before
        IN /\ ~r.joker
           /\ r.credited = 0
           /\ r.balance = b.balance - r.stake
           /\ session.balance \in {r.balance, Max2(0, r.balance - Fee(r.balance, 10))}
           /\ session.total_credits = b.total_credits
           /\ session.win_streak = 0
           /\ session.max_win_streak = b.max_win_streak
           /\ rounds_completed = b.rounds_completed + 1

\* A round lost after a streak of three wins, which ends the mission it was
\* played under.
LossTakesStakeOnlyWitness ==
    /\ RoundResolved /\ ~last[1].win
    /\ last[1].before.win_streak = 3
    /\ session.win_streak = 0
    /\ session.max_win_streak = 3
    /\ last[1].before.active_side_mission # None
    /\ active_side_mission = None
    /\ session.balance = last[1].before.balance - last[1].stake

\* C37 as stated: after a round resolved as a win the balance has changed by
\* payout x bonus - stake >= 0, total_credits has grown by exactly that
\* profit, win_streak is one more and max_win_streak is at least win_streak.
WinAddsExactlyProfit ==
    (RoundResolved /\ last[1].win) =>
        LET r == last[1]
            b == r.before
            profit == r.credited - r.stake
        IN /\ profit >= 0
           /\ r.balance = b.balance + profit
           /\ session.total_credits = b.total_credits + profit
           /\ session.win_streak = b.win_streak + 1
           /\ session.max_win_streak >= session.win_streak

\* C37: a round resolved as a win never leaves the balance below its value
\* before the stake was taken: its settlement changes the balance by
\* payout x bonus - stake >= 0 and total_credits by that profit; the win that
\* completes a Double or Nothing mission then doubles the balance and adds
\* the balance before the doubling to total_credits as well; win_streak is
\* one more and max_win_streak is the larger of its old value and
\* win_streak.  (After that the balance changes only by the calibration fee
\* of a new deck.)
WinNeverLowersBalance ==
    (RoundResolved /\ last[1].win) =>
        LET r == last[1]
            b == r.before
            bonus == IF b.active_side_mission = None THEN 1
                     ELSE b.active_side_mission[1].definition.bonus_multiplier
            profit == r.credited - r.stake
            reward == IF /\ b.active_side_mission # None
                         /\ b.active_side_mission[1].definition.kind = DOUBLE_OR_NOTHING
                         /\ r.mission[1].completed
                      THEN r.balance ELSE 0
            rewarded == r.balance + reward
        IN /\ r.payout # None
           /\ r.credited = r.payout[1] * bonus
           /\ profit >= 0
           /\ r.balance = b.balance + profit
           /\ r.balance >= b.balance
           /\ session.balance \in {rewarded, Max2(0, rewarded - Fee(rewarded, 10))}
           /\ session.total_credits = b.total_credits + profit + reward
           /\ session.win_streak = b.win_streak + 1
           /\ session.max_win_streak = Max2(b.max_win_streak, session.win_streak)
           /\ session.max_win_streak >= session.win_streak

\* The third win in a row under Double or Nothing: the profit of the round
\* and the doubled balance are both credited.
WinNeverLowersBalanceWitness ==
    /\ RoundResolved /\ last[1].win
    /\ last[1].before.active_side_mission # None
    /\ last[1].before.active_side_mission[1].definition.kind = DOUBLE_OR_NOTHING
    /\ last[1].mission[1].completed
    /\ last[1].credited > last[1].stake
    /\ session.balance = 2 * last[1].balance
    /\ session.total_credits =
          last[1].before.total_credits + last[1].credited - last[1].stake + last[1].balance
    /\ session.win_streak = 5

\* C38: total_credits never decreases: no step of the game (a round won or
\* lost, a mission reward, a skip penalty, a calibration fee, a purchase, a
\* settings change) leaves it lower than before, and it grows only in the
\* step that resolves a won round.
TotalCreditsNeverDecrease ==
    [][/\ session'.total_credits >= session.total_credits
       /\ session'.total_credits > session.total_credits =>
             /\ pc = "predict"
             /\ last' # None /\ last'[1].op = "round" /\ last'[1].win]_vars

\* A round lost at the doubled stake after a round was won and the Bet
\* Amplifier bought: the credits extracted by the won round are still there.
TotalCreditsNeverDecreaseWitness ==
    /\ RoundResolved /\ ~last[1].win
    /\ session.bet_level = 1
    /\ last[1].stake = 2
    /\ session.total_credits > 0
    /\ session.total_credits = last[1].before.total_credits
    /\ session.balance < BetItem.base_cost

\* C39 as stated: a state-changing command at the offer puts the offered
\* definition back as the pending mission, activates nothing and charges
\* nothing; the definition stays queued through the menu, and when dealing
\* resumes (unless the game ends there for lack of funds) the same mission is
\* offered again before any round is played.
CommandAtOfferOffersAgain ==
    [][/\ (pc = "offer" /\ last' # None /\ last'[1].op = "offer_command") =>
             /\ last'[1].definition = round[1].definition
             /\ pending_side_mission' = Some(round[1].definition)
             /\ active_side_mission' = None
             /\ session' = session
             /\ state' \in CommandStates /\ pc' = "run"
             /\ UNCHANGED <<deck, current_card, rounds_completed>>
       /\ (pc # "offer" /\ last # None /\ last[1].op = "offer_command") =>
             /\ active_side_mission' = None
             /\ UNCHANGED <<deck, current_card, rounds_completed>>
             /\ IF pc = "run" /\ state = DEALING
                THEN \/ /\ state' = TERMINATED
                        /\ session.balance < StakeAmount(session)
                     \/ /\ pc' = "offer"
                        /\ round'[1].definition = last[1].definition
                        /\ pending_side_mission' = None
                        /\ session' = session
                ELSE pending_side_mission' = Some(last[1].definition)]_vars

\* C39: a state-changing command at the offer puts the offered definition
\* back as the pending mission, activates nothing and charges nothing; the
\* definition stays queued through the menu, and when dealing resumes (unless
\* the game ends there for lack of funds) the same mission is offered again
\* before any round is played if side missions are still enabled; if they
\* were switched off in the settings, the queued mission is dropped without
\* an offer and the round is played.
CommandAtOfferKeepsMissionQueued ==
    [][/\ (pc = "offer" /\ last' # None /\ last'[1].op = "offer_command") =>
             /\ last'[1].definition = round[1].definition
             /\ pending_side_mission' = Some(round[1].definition)
             /\ active_side_mission' = None
             /\ session' = session
             /\ state' \in CommandStates /\ pc' = "run"
             /\ UNCHANGED <<deck, current_card, rounds_completed>>
       /\ (pc # "offer" /\ last # None /\ last[1].op = "offer_command") =>
             /\ active_side_mission' = None
             /\ UNCHANGED <<deck, current_card, rounds_completed>>
             /\ IF pc = "run" /\ state = DEALING
                THEN \/ /\ state' = TERMINATED
                        /\ session.balance < StakeAmount(session)
                     \/ /\ session.side_missions_enabled
                        /\ pc' = "offer"
                        /\ round'[1].definition = last[1].definition
                        /\ pending_side_mission' = None
                        /\ session' = session
                     \/ /\ ~session.side_missions_enabled
                        /\ pc' = "predict"
                        /\ pending_side_mission' = None
                        /\ session' = session
                ELSE pending_side_mission' = Some(last[1].definition)]_vars

\* Dealing about to resume after the Gone Blind offer was left for the
\* settings and side missions were switched off there.
CommandAtOfferKeepsMissionQueuedWitness ==
    /\ last # None /\ last[1].op = "offer_command"
    /\ last[1].definition.kind = GONE_BLIND
    /\ pc = "run" /\ state = DEALING
    /\ pending_side_mission = Some(last[1].definition)
    /\ active_side_mission = None
    /\ ~session.side_missions_enabled
    /\ rounds_completed = SideMissionInterval

====
